---- MODULE Spec2Model ----
(***************************************************************************)
(* Session application of the authentication service: login and logout     *)
(* (src/src/session/application.rs) over the user repository, the secret   *)
(* repository, the token application and the cache.                        *)
(*                                                                         *)
(* login is split at its awaits (user lookup, secret lookup, store); the   *)
(* code between two awaits is one step.  logout has a single await         *)
(* (revoke) and is one step.                                               *)
(***************************************************************************)
EXTENDS Integers, Sequences, FiniteSets, TLC

VARIABLES now, secrets, cache, nextJti, signed, call, last

\* the state of the user application (signup flows): the users persisted,
\* the next id the user repository assigns, the pending credentials in the
\* cache, the mails sent, the events emitted, the verify_credentials in
\* flight, the signup_with_token calls in flight, and whether a
\* collaborator has failed
VARIABLES users, nextId, pending, mails, events, vc, sw, faulted

suvars == <<users, nextId, pending, mails, events, vc, sw, faulted>>

\* the state of the MFA flows of the user application: the calls of
\* enable_mfa / disable_mfa in flight and the secrets of the secret repository
VARIABLES mf, vault

mfvars == <<mf, vault>>

\* the session under construction in the domain test of Session::new
VARIABLES sess

\* InMemorySessionRepository (src/src/session/framework.rs): its two maps,
\* the holders of its RwLocks, and the threads calling it
VARIABLES all_instances, group_by_app, locks, th

repovars == <<all_instances, group_by_app, locks, th>>

\* PostgresUserRepository (src/src/user/framework.rs): the tables, and the
\* connection running a transaction
VARIABLES pg, tx

pgvars == <<pg, tx>>

vars == <<now, secrets, cache, nextJti, signed, call, last, suvars, mfvars, sess,
          repovars, pgvars>>

----------------------------------------------------------------------------
(* Bounds of the model *)

\* the clock runs over 0..MaxTime
MaxTime == 1
\* at most MaxTokens tokens are ever generated
MaxTokens == 2
\* lifetime of a token and of its cache entry, in clock ticks
TokenTimeout == 1

----------------------------------------------------------------------------
(* Values *)

Session == "session"
Verification == "verification"
Reset == "reset"
TokenKinds == {Session, Verification, Reset}

\* Error kinds (crate::result::Error)
WrongCredentials == "WrongCredentials"
Unauthorized == "Unauthorized"
InvalidToken == "InvalidToken"
NotFound == "NotFound"
Unknown == "Unknown"

\* a token payload, and the placeholder for "no token"
NoToken == [jti |-> 0, sub |-> "", knd |-> "none", iat |-> 0, exp |-> 0]
\* a signed token string: the payload together with its signature
NoString == [payload |-> NoToken, sig |-> "none"]

Ok(v) == [ok |-> TRUE, err |-> "", val |-> v]
Err(e) == [ok |-> FALSE, err |-> e, val |-> NoString]
Pending == [ok |-> FALSE, err |-> "pending", val |-> NoString]

\* SessionApplication.pwd_sufix of the application under test
pwd_sufix == "::test"

\* Password::digest: a one-way digest of the password and the suffix,
\* modelled as the (injective) pair of both
digest(pwd, sufix) == <<pwd, sufix>>

NoPassword == [some |-> FALSE, hash |-> <<"", "">>]
SomePassword(h) == [some |-> TRUE, hash |-> h]

NoUser == [id |-> 0, name |-> "", email |-> "", password |-> NoPassword]

\* The users of the repository: the user of the tests
Users ==
    { [id |-> 123, name |-> "username", email |-> "username@server.domain",
       password |-> SomePassword(digest("abcABC123&", pwd_sufix))] }

UserIds == {u.id : u \in Users}

\* inputs of login
Idents == {"username", "username@server.domain", "nobody@server.domain"}
Passwords == {"abcABC123&", "xyzXYZ789#", "fake"}
Totps == {"111111", "000000"}

\* Email::REGEX.is_match
IsEmail(ident) == ident \in {"username@server.domain", "nobody@server.domain"}

\* Email::try_from: the same expression decides
EmailTryFrom(ident) == IF IsEmail(ident) THEN Ok(NoString) ELSE Err(Unknown)

\* Password::try_from: upper and lower case letters, digits and a special character
PasswordTryFrom(pwd) == IF pwd \in {"abcABC123&", "xyzXYZ789#"} THEN Ok(NoString) ELSE Err(Unknown)

\* secret data, and the code the TOTP generator yields for it
NoSecret == "none"
SecretData == {"secret_data"}
current_totp(data) == IF data = "secret_data" THEN "111111" ELSE "999999"

\* crypto::verify_totp(secret.data(), totp)
verify_totp(data, totp) == IF totp = current_totp(data) THEN Ok(NoString) ELSE Err(Unauthorized)

----------------------------------------------------------------------------
(* Repositories *)

UsersBy(field, value) == {u \in Users : u[field] = value}

\* UserRepository::find_by_email / find_by_name
find_by_email(email) ==
    IF UsersBy("email", email) = {} THEN [ok |-> FALSE, err |-> NotFound, user |-> NoUser]
    ELSE [ok |-> TRUE, err |-> "", user |-> CHOOSE u \in UsersBy("email", email) : TRUE]

find_by_name(name) ==
    IF UsersBy("name", name) = {} THEN [ok |-> FALSE, err |-> NotFound, user |-> NoUser]
    ELSE [ok |-> TRUE, err |-> "", user |-> CHOOSE u \in UsersBy("name", name) : TRUE]

\* SecretRepository::find_by_owner_and_kind(user.id, SecretKind::Totp)
find_by_owner_and_kind(owner) ==
    IF owner \in UserIds /\ secrets[owner] # NoSecret
    THEN [ok |-> TRUE, err |-> "", data |-> secrets[owner]]
    ELSE [ok |-> FALSE, err |-> NotFound, data |-> NoSecret]

----------------------------------------------------------------------------
(* Cache and token application *)

\* Cache::save(key, value, ttl): overwrites the entry at key
save(c, key, value, ttl) ==
    [k \in DOMAIN c \cup {key} |->
        IF k = key THEN [value |-> value, deadline |-> now + ttl] ELSE c[k]]

\* Cache::delete(key): deleting an absent key succeeds silently
delete(c, key) == [k \in DOMAIN c \ {key} |-> c[k]]

\* the entries the cache still holds at instant t
Unexpired(c, t) == [k \in {j \in DOMAIN c : c[j].deadline > t} |-> c[k]]

\* TokenApplication::generate(kind, sub): a fresh jti, iat = now, exp = iat + timeout
generate(kind, sub) ==
    [jti |-> nextJti, sub |-> sub, knd |-> kind, iat |-> now, exp |-> now + TokenTimeout]

\* TokenApplication::sign(token)
sign(token) == [payload |-> token, sig |-> "valid"]

\* TokenApplication::decode(token): signature and expiry, no cache lookup
decode(s) ==
    IF s.sig = "valid" /\ s.payload.exp > now
    THEN [ok |-> TRUE, err |-> "", token |-> s.payload]
    ELSE [ok |-> FALSE, err |-> InvalidToken, token |-> NoToken]

\* TokenKind::is_session
is_session(knd) == knd = Session

\* the token strings a caller can present: the ones signed so far and
\* copies of them whose signature does not verify
Forged(s) == [s EXCEPT !.sig = "forged"]
Presentable == signed \cup {Forged(s) : s \in signed}

----------------------------------------------------------------------------
(* Initial state *)

\* the login in flight: its position, its arguments and its locals.  lookup
\* is the outcome of the user lookup, faults whether a collaborator other
\* than the user repository failed during the call, stored whether
\* token_app.store wrote the liveness entry
Idle == [pc |-> "idle", ident |-> "", pwd |-> "", totp |-> "", lookup |-> "none",
         user |-> NoUser, token |-> NoToken, stored |-> FALSE, faults |-> FALSE,
         result |-> Pending]

\* the last logout: the token presented and the result; whether revoke was
\* invoked (revoked) and the cache answered (ioOk); whether the logout before
\* it was of the same token and succeeded (again); whether, at the call, the token
\* was unexpired (fresh) and its jti had a cache entry (live); whether the
\* call changed the cache (touched) and left no entry for the jti (gone)
NoLogout == [done |-> FALSE, token |-> NoString, result |-> Pending, revoked |-> FALSE,
             again |-> FALSE, ioOk |-> TRUE, fresh |-> FALSE, live |-> FALSE,
             touched |-> FALSE, gone |-> FALSE]

Init ==
    /\ now = 0
    /\ secrets \in [UserIds -> SecretData \cup {NoSecret}]
    /\ cache = <<>>
    /\ nextJti = 1
    /\ signed = {}
    /\ call = Idle
    /\ last = NoLogout
    /\ users = {}
    /\ nextId = 1
    /\ pending = <<>>
    /\ mails = {}
    /\ events = <<>>
    /\ vc = NoString
    /\ sw = <<>>
    /\ faulted = FALSE
    /\ mf = <<>>
    /\ vault = {}
    /\ sess = <<>>
    /\ all_instances = <<>>
    /\ group_by_app = <<>>
    /\ locks = <<>>
    /\ th = <<>>
    /\ pg = <<>>
    /\ tx = <<>>

----------------------------------------------------------------------------
(* SessionApplication::login *)

\* a lookup error handed on as it is
UserLookupErr_propagated(err) == err

\* line 30: every error of the user lookup becomes WrongCredentials
UserLookupErr(err) == WrongCredentials

\* lines 32-40: the condition under which login returns WrongCredentials:
\* the password parses and its digest equals the stored password
PasswordRejected(pwd, user) ==
    /\ PasswordTryFrom(pwd).ok
    /\ IF user.password.some
       THEN user.password.hash = digest(pwd, pwd_sufix)
       ELSE FALSE

\* lines 44-48: the secret lookup, then verify_totp, every error becoming
\* Unauthorized
TotpCheck(found, totp) ==
    LET checked == IF found.ok THEN verify_totp(found.data, totp) ELSE Err(found.err)
    IN  IF checked.ok THEN checked ELSE Err(Unauthorized)

\* the result of store dropped instead of returned
StoreThenSign_unchecked(stored, signedRes) == signedRes

\* lines 54-55: store(&token).await? and then sign(&token)
StoreThenSign(stored, signedRes) ==
    IF ~stored.ok THEN Err(stored.err) ELSE signedRes

\* line 22: the call; line 25: the email conversion, whose error propagates
Login(ident, pwd, totp) ==
    /\ call.pc \in {"idle", "done"}
    /\ call' = IF IsEmail(ident) /\ ~EmailTryFrom(ident).ok
               THEN [Idle EXCEPT !.pc = "done", !.ident = ident, !.pwd = pwd,
                                 !.totp = totp, !.result = Err(EmailTryFrom(ident).err)]
               ELSE [Idle EXCEPT !.pc = "find_user", !.ident = ident, !.pwd = pwd,
                                 !.totp = totp]
    /\ last' = NoLogout
    /\ UNCHANGED <<suvars, now, secrets, cache, nextJti, signed>>
    /\ UNCHANGED <<mfvars, sess>>
    /\ UNCHANGED <<repovars, pgvars>>

\* lines 23-42: the user lookup resolves; then the password check
LoginUser(fail) ==
    /\ call.pc = "find_user"
    /\ LET found == IF fail THEN [ok |-> FALSE, err |-> Unknown, user |-> NoUser]
                    ELSE IF IsEmail(call.ident) THEN find_by_email(call.ident)
                    ELSE find_by_name(call.ident)
       IN  call' =
             IF ~found.ok
             THEN [call EXCEPT !.pc = "done", !.lookup = found.err,
                               !.result = Err(UserLookupErr(found.err))]
             ELSE IF PasswordRejected(call.pwd, found.user)
             THEN [call EXCEPT !.pc = "done", !.lookup = "ok", !.user = found.user,
                               !.result = Err(WrongCredentials)]
             ELSE [call EXCEPT !.pc = "find_secret", !.lookup = "ok",
                               !.user = found.user]
    /\ UNCHANGED <<suvars, now, secrets, cache, nextJti, signed, last>>
    /\ UNCHANGED <<mfvars, sess>>
    /\ UNCHANGED <<repovars, pgvars>>

\* lines 44-52: the secret lookup resolves; the TOTP check; generate
LoginSecret(fail, genOk) ==
    /\ call.pc = "find_secret"
    /\ LET found == IF fail THEN [ok |-> FALSE, err |-> Unknown, data |-> NoSecret]
                    ELSE find_by_owner_and_kind(call.user.id)
           checked == TotpCheck(found, call.totp)
       IN  IF ~checked.ok
           THEN /\ call' = [call EXCEPT !.pc = "done", !.faults = fail,
                                        !.result = Err(checked.err)]
                /\ UNCHANGED nextJti
           ELSE IF ~genOk
           THEN /\ call' = [call EXCEPT !.pc = "done", !.faults = TRUE,
                                        !.result = Err(Unknown)]
                /\ UNCHANGED nextJti
           ELSE /\ nextJti <= MaxTokens
                /\ call' = [call EXCEPT !.pc = "store",
                                        !.token = generate(Session, ToString(call.user.id))]
                /\ nextJti' = nextJti + 1
    /\ UNCHANGED <<suvars, now, secrets, cache, signed, last>>
    /\ UNCHANGED <<mfvars, sess>>
    /\ UNCHANGED <<repovars, pgvars>>

\* lines 54-55: the store resolves; sign; return
LoginStore(storeOk, signOk) ==
    /\ call.pc = "store"
    /\ LET stored == IF storeOk THEN Ok(NoString) ELSE Err(Unknown)
           signedRes == IF signOk THEN Ok(sign(call.token)) ELSE Err(Unknown)
           result == StoreThenSign(stored, signedRes)
       IN  /\ cache' = IF storeOk
                       THEN save(cache, call.token.jti, call.token, TokenTimeout)
                       ELSE cache
           /\ call' = [call EXCEPT !.pc = "done", !.stored = storeOk,
                                   !.faults = ~result.ok, !.result = result]
           /\ signed' = IF result.ok THEN signed \cup {result.val} ELSE signed
    /\ UNCHANGED <<suvars, now, secrets, nextJti, last>>
    /\ UNCHANGED <<mfvars, sess>>
    /\ UNCHANGED <<repovars, pgvars>>

----------------------------------------------------------------------------
(* SessionApplication::logout *)

\* the token's claims obtained with a lookup of its jti in the cache
logout_token_live(s) ==
    IF decode(s).ok /\ decode(s).token.jti \in DOMAIN cache
    THEN decode(s)
    ELSE [ok |-> FALSE, err |-> InvalidToken, token |-> NoToken]

\* line 68: the token is decoded
logout_token(s) == decode(s)

\* every kind accepted
logout_accepts_any(knd) == TRUE

\* line 69: the kinds logout accepts
logout_accepts(knd) == is_session(knd)

\* a logout that returns without revoking
logout_strategy_no_revoke(s, ioOk) ==
    IF logout_token(s).ok /\ logout_accepts(logout_token(s).token.knd)
    THEN [result |-> Ok(NoString), revoked |-> FALSE, cache |-> cache]
    ELSE [result |-> Err(InvalidToken), revoked |-> FALSE, cache |-> cache]

\* lines 64-74, with TokenApplication::revoke deleting the jti's cache entry
logout_strategy(s, ioOk) ==
    LET token == logout_token(s)
    IN  IF ~token.ok
        THEN [result |-> Err(token.err), revoked |-> FALSE, cache |-> cache]
        ELSE IF ~logout_accepts(token.token.knd)
        THEN [result |-> Err(InvalidToken), revoked |-> FALSE, cache |-> cache]
        ELSE IF ~ioOk
        THEN [result |-> Err(Unknown), revoked |-> TRUE, cache |-> cache]
        ELSE [result |-> Ok(NoString), revoked |-> TRUE,
              cache |-> delete(cache, token.token.jti)]

\* lines 59-61.  A token string exists only once sign has returned it, so
\* a logout never concerns the token of the login in flight; it is taken
\* between logins
Logout(s, ioOk) ==
    /\ call.pc \in {"idle", "done"}
    /\ LET out == logout_strategy(s, ioOk)
       IN  /\ cache' = out.cache
           /\ last' = [done |-> TRUE, token |-> s, result |-> out.result,
                       revoked |-> out.revoked, again |-> last.done /\ last.result.ok /\ last.token = s,
                       ioOk |-> ioOk, fresh |-> s.payload.exp > now,
                       live |-> s.payload.jti \in DOMAIN cache,
                       touched |-> out.cache # cache,
                       gone |-> s.payload.jti \notin DOMAIN out.cache]
    /\ call' = IF call.pc = "done" THEN Idle ELSE call
    /\ UNCHANGED <<suvars, now, secrets, nextJti, signed>>
    /\ UNCHANGED <<mfvars, sess>>
    /\ UNCHANGED <<repovars, pgvars>>

----------------------------------------------------------------------------
(* Environment *)

\* the subject a token of each kind carries
SubjectOf(kind) == IF kind = Verification THEN "fingerprint" ELSE "123"

\* a token signed without being stored (the tests' sign_jwt(new_token(kind)))
Mint(kind) ==
    /\ nextJti <= MaxTokens
    /\ signed' = signed \cup {sign(generate(kind, SubjectOf(kind)))}
    /\ nextJti' = nextJti + 1
    /\ UNCHANGED <<suvars, now, secrets, cache, call, last>>
    /\ UNCHANGED <<mfvars, sess>>
    /\ UNCHANGED <<repovars, pgvars>>

\* a token issued by another flow sharing the token application:
\* generate, store, sign
Issue(kind) ==
    /\ nextJti <= MaxTokens
    /\ LET token == generate(kind, SubjectOf(kind))
       IN  /\ cache' = save(cache, token.jti, token, TokenTimeout)
           /\ signed' = signed \cup {sign(token)}
    /\ nextJti' = nextJti + 1
    /\ UNCHANGED <<suvars, now, secrets, call, last>>
    /\ UNCHANGED <<mfvars, sess>>
    /\ UNCHANGED <<repovars, pgvars>>

\* time passes; the cache drops the entries whose ttl is over
Tick ==
    /\ now < MaxTime
    /\ now' = now + 1
    /\ cache' = Unexpired(cache, now + 1)
    /\ UNCHANGED <<suvars, secrets, nextJti, signed, call, last>>
    /\ UNCHANGED <<mfvars, sess>>
    /\ UNCHANGED <<repovars, pgvars>>

Next ==
    \/ \E ident \in Idents, pwd \in Passwords, totp \in Totps : Login(ident, pwd, totp)
    \/ \E fail \in BOOLEAN : LoginUser(fail)
    \/ \E fail \in BOOLEAN, genOk \in BOOLEAN : LoginSecret(fail, genOk)
    \/ \E storeOk \in BOOLEAN, signOk \in BOOLEAN : LoginStore(storeOk, signOk)
    \/ \E s \in Presentable, ioOk \in BOOLEAN : Logout(s, ioOk)
    \/ Mint(Session)
    \/ \E kind \in TokenKinds : Issue(kind)
    \/ Tick

Spec == Init /\ [][Next]_vars

----------------------------------------------------------------------------
(* Properties of login *)

\* the digest of pwd equals the password stored for user
DigestMatches(pwd, user) ==
    user.password.some /\ user.password.hash = digest(pwd, pwd_sufix)

\* the login has returned, having found its user
ReturnedFor == call.pc = "done" /\ call.lookup = "ok"

\* the user of the login has a TOTP secret
HasTotp == call.user.id \in UserIds /\ secrets[call.user.id] # NoSecret

\* the login neither generated nor stored a token
NoTokenIssued == call.token = NoToken /\ ~call.stored /\ call.result.val = NoString

\* the login returned a signed Session token for its user
SessionReturned ==
    /\ call.result.ok
    /\ call.result.val.sig = "valid"
    /\ call.result.val.payload.knd = Session
    /\ call.result.val.payload.sub = ToString(call.user.id)

\* C1: a login of an existing user with a well-formed password whose digest
\* differs from the stored password returns WrongCredentials, and no token
\* is generated, stored or returned.
C1_WrongPasswordRejected ==
    (ReturnedFor /\ PasswordTryFrom(call.pwd).ok /\ ~DigestMatches(call.pwd, call.user))
        => (call.result = Err(WrongCredentials) /\ NoTokenIssued)

\* C2: a login of an existing user with the correct password and no TOTP
\* secret (no collaborator failing) returns a signed Session token whose sub
\* is the user's id as a string, for an email as for a name.
C2_LoginWithoutTotpSucceeds ==
    (ReturnedFor /\ DigestMatches(call.pwd, call.user) /\ ~HasTotp /\ ~call.faults)
        => SessionReturned

\* C3: a login of an existing user with the correct password and the TOTP
\* code valid for the stored secret (no collaborator failing) returns a
\* Session token whose sub is the user's id as a string.
C3_LoginWithTotpSucceeds ==
    (/\ ReturnedFor /\ DigestMatches(call.pwd, call.user) /\ HasTotp
     /\ call.totp = current_totp(secrets[call.user.id]) /\ ~call.faults)
        => SessionReturned

\* C4: a login of a user with a TOTP secret, the correct password and a code
\* that is not valid for the secret returns Unauthorized, and no token is
\* generated or stored.
C4_WrongTotpUnauthorized ==
    (/\ ReturnedFor /\ DigestMatches(call.pwd, call.user) /\ HasTotp
     /\ call.totp # current_totp(secrets[call.user.id]))
        => (call.result = Err(Unauthorized) /\ NoTokenIssued)

\* C5: when the user lookup fails, with NotFound or any other error, login
\* returns WrongCredentials whatever the password and the code, and nothing
\* is generated or written to the cache.
C5_LookupFailureIsWrongCredentials ==
    (call.pc = "done" /\ call.lookup \in {NotFound, Unknown})
        => (call.result = Err(WrongCredentials) /\ NoTokenIssued)

\* a login with the right password and code whose lookup failed
C5_Witness ==
    /\ call.pc = "done"
    /\ call.lookup \in {NotFound, Unknown}
    /\ call.pwd = "abcABC123&"
    /\ call.totp = "111111"
    /\ call.result = Err(WrongCredentials)

\* C6: an unknown user, a password mismatch and a password that does not
\* parse all end the login with WrongCredentials: past the user lookup, such
\* a login has returned WrongCredentials and never reaches the TOTP check or
\* the issuance of a token.
C6_FailuresFoldToWrongCredentials ==
    (/\ call.pc \notin {"idle", "find_user"}
     /\ \/ call.lookup \in {NotFound, Unknown}
        \/ call.lookup = "ok" /\ ~PasswordTryFrom(call.pwd).ok
        \/ call.lookup = "ok" /\ ~DigestMatches(call.pwd, call.user))
        => (call.pc = "done" /\ call.result = Err(WrongCredentials) /\ NoTokenIssued)

\* C7: at the step at which login returns, a returned token has its
\* liveness entry in the cache under its jti, and when the store did not
\* write the entry the login returns an error and hands out no token string.
C7_StoredBeforeReturned ==
    [][(call.pc = "store" /\ call'.pc = "done") =>
         /\ call'.result.ok =>
              /\ call.token.jti \in DOMAIN cache'
              /\ cache'[call.token.jti].value = call.token
              /\ call'.result.val.payload = call.token
         /\ call.token.jti \notin DOMAIN cache' =>
              /\ ~call'.result.ok
              /\ call'.result.val = NoString
              /\ signed' = signed]_vars

\* a login has returned a token whose liveness entry is in the cache
C7_Witness ==
    /\ call.pc = "done"
    /\ call.result.ok
    /\ call.stored
    /\ call.token.jti \in DOMAIN cache

----------------------------------------------------------------------------
(* Properties of logout *)

\* the last logout presented a token with a valid signature of kind k
LoggedOut(k) ==
    last.done /\ last.token.sig = "valid" /\ last.token.payload.knd = k

\* C8: a logout with a validly signed Verification or Reset token returns
\* InvalidToken, does not invoke revoke and leaves the cache as it was.
C8_LogoutRejectsOtherKinds ==
    (LoggedOut(Verification) \/ LoggedOut(Reset))
        => (last.result = Err(InvalidToken) /\ ~last.revoked /\ ~last.touched)

\* a logout with an unexpired Verification token whose jti is in the cache
C8_Witness ==
    LoggedOut(Verification) /\ last.fresh /\ last.live /\ last.result = Err(InvalidToken)

\* C9: a logout with a validly signed, unexpired Session token whose jti is
\* in the cache (the cache answering the delete) returns Ok and leaves no
\* entry for the jti.
C9_LogoutRevokes ==
    (LoggedOut(Session) /\ last.fresh /\ last.live /\ last.ioOk)
        => (last.result.ok /\ last.gone)

\* a logout that removed the entry of a live Session token
C9_Witness ==
    /\ LoggedOut(Session) /\ last.fresh /\ last.live /\ last.ioOk
    /\ last.result.ok /\ last.touched

\* C10, as claimed: after a successful logout of a Session token, a second
\* logout of the same unexpired token (the cache answering) fails with
\* InvalidToken.
C10_SecondLogoutInvalidToken ==
    (last.done /\ last.again /\ last.fresh /\ last.ioOk)
        => last.result = Err(InvalidToken)

\* C10, amended: logout decodes the token without looking its jti up in the
\* cache; after a successful logout of a Session token, a second logout of
\* the same unexpired token passes the decoding and the kind check, invokes
\* revoke again and does not fail with InvalidToken (it returns Ok when the
\* cache answers).
C10_SecondLogoutReachesRevoke ==
    (last.done /\ last.again /\ last.fresh)
        => /\ last.revoked
           /\ last.result.err # InvalidToken
           /\ last.ioOk => last.result.ok

\* a second logout of a token whose entry the first one removed
C10_Witness ==
    /\ last.done /\ last.again /\ last.fresh
    /\ LoggedOut(Session) /\ ~last.live /\ last.result.ok

----------------------------------------------------------------------------
(* Frame of a failed login *)

\* C31: whenever login has returned an error, at whatever step, the cache
\* holds no liveness entry added by that call, that is no entry under the jti
\* of the token the call generated.
C31_FailedLoginLeavesNoEntry ==
    (call.pc = "done" /\ ~call.result.ok /\ call.token # NoToken)
        => call.token.jti \notin DOMAIN cache

----------------------------------------------------------------------------
(* User application: values (src/src/user/application/signup.rs) *)

\* Error kinds (crate::user::error::Error)
AlreadyExists == "AlreadyExists"
WrongToken == "WrongToken"
Debug == "Debug"

\* MFA preference of a user
NoMfa == "none"
TotpMfa == "totp"

\* the user the repository holds from the start: id 999, with or without MFA
ExistingUser(mfa) ==
    [id |-> 999, email |-> "username@server.domain",
     password |-> digest("abcABC123&", "salt0"), mfa |-> mfa]

\* inputs of verify_credentials; the salt Salt::with_length draws
SignupEmails == {"username@server.domain", "new@server.domain"}
SignupPasswords == {"abcABC123&"}
Salts == {"salt1"}

\* the two callers of signup_with_token
Procs == {"a", "b"}

\* PasswordHash::with_salt(&password, &salt)
with_salt(pwd, salt) == digest(pwd, salt)

NoCredentials == [email |-> "", password |-> <<"", "">>]

\* credentials.hash() and key.to_string(): the fingerprint of the
\* credentials, as the string that is both cache key and token subject
fingerprint(credentials) == ToString(<<credentials.email, credentials.password>>)

\* User from Credentials (Credentials::into): id 0, default preferences
into_user(credentials) ==
    [id |-> 0, email |-> credentials.email, password |-> credentials.password,
     mfa |-> NoMfa]

NoNewUser == into_user(NoCredentials)

\* UserRepository::find_by_email over the persisted users
su_find_by_email(email) ==
    IF \E u \in users : u.email = email
    THEN [ok |-> TRUE, err |-> "", user |-> CHOOSE u \in users : u.email = email]
    ELSE [ok |-> FALSE, err |-> NotFound, user |-> NoNewUser]

\* payload.timeout()
timeout(payload) == payload.exp - payload.iat

\* TokenService::claims(token): decode, then the liveness entry of the jti
claims(s) ==
    IF decode(s).ok /\ decode(s).token.jti \in DOMAIN cache
    THEN decode(s)
    ELSE [ok |-> FALSE, err |-> InvalidToken, token |-> NoToken]

\* TokenKind::is_verification
is_verification(knd) == knd = Verification

----------------------------------------------------------------------------
(* UserApplication::verify_credentials *)

\* the verify_credentials in flight: position, arguments, locals; lookup is
\* the outcome of find_by_email; liveUntil and recordUntil are the instants
\* at which the liveness entry and the credentials record expire, savedAt the
\* instant of the save; saved and mailed tell whether the record was written
\* and the mail sent
VcIdle == [pc |-> "idle", email |-> "", pwd |-> "", lookup |-> "none",
           creds |-> NoCredentials, key |-> "", claims |-> NoString,
           liveUntil |-> 0, savedAt |-> 0, recordUntil |-> 0,
           saved |-> FALSE, mailed |-> FALSE, result |-> Pending]

\* a signup_with_token in flight: position, argument, locals; lookup is the
\* outcome of cache.find, read whether the credentials were read from the
\* cache, revoke the outcome of token_srv.revoke ("no" while not invoked),
\* created, emitted and issued whether the user was persisted, the event
\* published and the Session token issued by this call; later whether a
\* signup_with_token with the same token had returned Ok when it began,
\* retry whether one had returned an error after revoking the token
SwIdle == [pc |-> "idle", token |-> NoString, claims |-> NoToken,
           later |-> FALSE, retry |-> FALSE,
           lookup |-> "none", user |-> NoNewUser, read |-> FALSE,
           revoke |-> "no", created |-> FALSE, emitted |-> FALSE,
           issued |-> FALSE, result |-> Pending]

\* the lookup answered by a user taken as "no such user"
verify_lookup_ignores_user(found) ==
    IF ~found.ok /\ found.err # NotFound THEN Err(found.err) ELSE Ok(NoString)

\* every error of the lookup taken as "no such user"
verify_lookup_ignores_error(found) ==
    IF found.ok THEN Err(AlreadyExists) ELSE Ok(NoString)

\* lines 22-28: a user found is AlreadyExists, an error other than NotFound
\* is returned, NotFound lets the call go on
verify_lookup(found) ==
    IF found.ok THEN Err(AlreadyExists)
    ELSE IF found.err # NotFound THEN Err(found.err)
    ELSE Ok(NoString)

\* the email of the credentials as the subject of the token
verification_subject_email(credentials) == credentials.email

\* lines 36-39: the subject of the token is the key of the credentials
verification_subject(credentials) == fingerprint(credentials)

\* a ttl that is not the token's
credentials_ttl_fixed(payload) == TokenTimeout + 1

\* line 43: the ttl of the credentials record
credentials_ttl(payload) == timeout(payload)

\* the mail sent before the record is saved
save_then_mail_swapped(saveOk, mailOk) ==
    IF ~mailOk THEN [saved |-> FALSE, mailed |-> FALSE, result |-> Err(Debug)]
    ELSE IF ~saveOk THEN [saved |-> FALSE, mailed |-> TRUE, result |-> Err(Debug)]
    ELSE [saved |-> TRUE, mailed |-> TRUE, result |-> Ok(NoString)]

\* the mail sent whatever the save returned
save_then_mail_unconditional(saveOk, mailOk) ==
    [saved |-> saveOk, mailed |-> mailOk,
     result |-> IF saveOk /\ mailOk THEN Ok(NoString) ELSE Err(Debug)]

\* lines 42-49: cache.save(..).await?, then the mail is sent, then Ok
save_then_mail(saveOk, mailOk) ==
    IF ~saveOk THEN [saved |-> FALSE, mailed |-> FALSE, result |-> Err(Debug)]
    ELSE IF ~mailOk THEN [saved |-> TRUE, mailed |-> FALSE, result |-> Err(Debug)]
    ELSE [saved |-> TRUE, mailed |-> TRUE, result |-> Ok(NoString)]

\* line 21: the call; the model runs it while no signup_with_token is in
\* flight, and forgets the calls that returned
VerifyCredentials(email, pwd) ==
    /\ vc.pc \in {"idle", "done"}
    /\ \A p \in DOMAIN sw : sw[p].pc \in {"idle", "done"}
    /\ vc' = [VcIdle EXCEPT !.pc = "find", !.email = email, !.pwd = pwd]
    /\ sw' = [p \in DOMAIN sw |-> SwIdle]
    /\ UNCHANGED <<now, secrets, cache, nextJti, signed, call, last>>
    /\ UNCHANGED <<users, nextId, pending, mails, events, faulted>>
    /\ UNCHANGED <<mfvars, sess>>
    /\ UNCHANGED <<repovars, pgvars>>

\* lines 22-36: find_by_email resolves; the salt, the hash, the key
VcFound(fail, hashOk, salt) ==
    /\ vc.pc = "find"
    /\ LET found == IF fail THEN [ok |-> FALSE, err |-> Debug, user |-> NoNewUser]
                    ELSE su_find_by_email(vc.email)
           out == verify_lookup(found)
           creds == [email |-> vc.email, password |-> with_salt(vc.pwd, salt)]
           outcome == IF found.ok THEN "found" ELSE found.err
       IN  /\ vc' =
                IF ~out.ok
                THEN [vc EXCEPT !.pc = "done", !.result = out, !.lookup = outcome]
                ELSE IF ~hashOk
                THEN [vc EXCEPT !.pc = "done", !.result = Err(Debug),
                                !.lookup = outcome]
                ELSE [vc EXCEPT !.pc = "issue", !.lookup = outcome,
                                !.creds = creds, !.key = fingerprint(creds)]
           /\ faulted' = (faulted \/ fail \/ (out.ok /\ ~hashOk))
    /\ UNCHANGED <<now, secrets, cache, nextJti, signed, call, last>>
    /\ UNCHANGED <<users, nextId, pending, mails, events, sw>>
    /\ UNCHANGED <<mfvars, sess>>
    /\ UNCHANGED <<repovars, pgvars>>

\* lines 37-40: token_srv.issue(Verification, key) resolves
VcIssued(issueOk) ==
    /\ vc.pc = "issue"
    /\ IF ~issueOk
       THEN /\ vc' = [vc EXCEPT !.pc = "done", !.result = Err(Debug)]
            /\ faulted' = TRUE
            /\ UNCHANGED <<cache, nextJti>>
       ELSE /\ nextJti <= MaxTokens
            /\ LET token == generate(Verification, verification_subject(vc.creds))
               IN  /\ cache' = save(cache, token.jti, token, timeout(token))
                   /\ vc' = [vc EXCEPT !.pc = "save", !.claims = sign(token),
                                       !.liveUntil = now + timeout(token)]
            /\ nextJti' = nextJti + 1
            /\ UNCHANGED faulted
    /\ UNCHANGED <<now, secrets, signed, call, last>>
    /\ UNCHANGED <<users, nextId, pending, mails, events, sw>>
    /\ UNCHANGED <<mfvars, sess>>
    /\ UNCHANGED <<repovars, pgvars>>

\* lines 42-49: cache.save resolves; the mail is sent; the call returns
VcSaved(saveOk, mailOk) ==
    /\ vc.pc = "save"
    /\ LET out == save_then_mail(saveOk, mailOk)
           ttl == credentials_ttl(vc.claims.payload)
       IN  /\ pending' = IF out.saved
                         THEN save(pending, vc.key, vc.creds, ttl)
                         ELSE pending
           /\ mails' = IF out.mailed
                       THEN mails \cup {[to |-> vc.creds.email, token |-> vc.claims]}
                       ELSE mails
           /\ signed' = IF out.mailed THEN signed \cup {vc.claims} ELSE signed
           /\ vc' = [vc EXCEPT !.pc = "done", !.result = out.result,
                               !.saved = out.saved, !.mailed = out.mailed,
                               !.savedAt = IF out.saved THEN now ELSE 0,
                               !.recordUntil = IF out.saved THEN now + ttl ELSE 0]
           /\ faulted' = (faulted \/ ~out.result.ok)
    /\ UNCHANGED <<now, secrets, cache, nextJti, call, last>>
    /\ UNCHANGED <<users, nextId, events, sw>>
    /\ UNCHANGED <<mfvars, sess>>
    /\ UNCHANGED <<repovars, pgvars>>

\* time passes; the cache drops the entries and the records whose ttl is over
TickSignup ==
    /\ now < MaxTime
    /\ now' = now + 1
    /\ cache' = Unexpired(cache, now + 1)
    /\ pending' = Unexpired(pending, now + 1)
    /\ UNCHANGED <<secrets, nextJti, signed, call, last>>
    /\ UNCHANGED <<users, nextId, mails, events, vc, sw, faulted>>
    /\ UNCHANGED <<mfvars, sess>>
    /\ UNCHANGED <<repovars, pgvars>>

----------------------------------------------------------------------------
(* UserApplication::signup_with_token and UserApplication::signup *)

\* every kind of token accepted
signup_accepts_any(knd) == TRUE

\* lines 57-59: only a Verification token is accepted
signup_accepts(knd) == is_verification(knd)

\* From<cache::Error> at line 65: the NotFound of the cache is WrongToken
credentials_lookup_err(err) == IF err = NotFound THEN WrongToken ELSE err

\* the revoke left out: the call goes from cache.find to signup
after_find_no_revoke(found) == IF found THEN "create" ELSE "done"

\* the error of cache.find dropped: the call goes on to revoke
after_find_unchecked(found) == "revoke"

\* lines 61-67: cache.find(..).await ... ?, then revoke
after_find(found) == IF found THEN "revoke" ELSE "done"

\* the error of revoke dropped: the call goes on to signup
after_revoke_unchecked(revoked) == "create"

\* lines 67-68: token_srv.revoke(&claims).await?, then signup
after_revoke(revoked) == IF revoked THEN "create" ELSE "done"

\* the error of create dropped: the call goes on to emit
after_create_unchecked(created) == "emit"

\* lines 74-76: user_repo.create(user).await?, then emit_user_created
after_create(created) == IF created THEN "emit" ELSE "done"

\* the error of emit dropped: the call goes on to issue
after_emit_unchecked(emitted) == "issue"

\* lines 76-78: event_srv.emit_user_created(user).await?, then issue
after_emit(emitted) == IF emitted THEN "issue" ELSE "done"

\* the email of the user as the subject of the Session token
session_subject_email(user) == user.email

\* line 79: the subject of the Session token is user.id.to_string()
session_subject(user) == ToString(user.id)

\* UserRepository::create(user): the email is unique; the id is assigned
create(user) ==
    IF \E u \in users : u.email = user.email
    THEN [ok |-> FALSE, err |-> AlreadyExists, user |-> user]
    ELSE [ok |-> TRUE, err |-> "", user |-> [user EXCEPT !.id = nextId]]

\* line 54: the call, with a token a caller holds; the model runs it while
\* no verify_credentials is in flight, and forgets the calls that returned.
\* Of the two callers, "a" calls first and "b" presents the token of "a",
\* while the call of "a" is in flight or after it returned
SignupWithToken(p, s) ==
    /\ sw[p].pc \in {"idle", "done"}
    /\ vc.pc \in {"idle", "done"}
    /\ p = "a" => sw["b"].pc \in {"idle", "done"}
    /\ p = "b" => sw["a"].pc # "idle" /\ s = sw["a"].token
    /\ sw' = [q \in DOMAIN sw |->
                IF q = p
                THEN [SwIdle EXCEPT !.pc = "claims", !.token = s,
                        !.later = \E r \in Procs : /\ sw[r].pc = "done"
                                                   /\ sw[r].result.ok
                                                   /\ sw[r].token = s,
                        !.retry = \E r \in Procs : /\ sw[r].pc = "done"
                                                   /\ ~sw[r].result.ok
                                                   /\ sw[r].revoke = "ok"
                                                   /\ sw[r].token = s]
                ELSE IF p = "a" THEN SwIdle ELSE sw[q]]
    /\ vc' = VcIdle
    /\ UNCHANGED <<now, secrets, cache, nextJti, signed, call, last>>
    /\ UNCHANGED <<users, nextId, pending, mails, events, faulted>>
    /\ UNCHANGED <<mfvars, sess>>
    /\ UNCHANGED <<repovars, pgvars>>

\* lines 55-59: token_srv.claims(token) resolves; the kind check
SwClaims(p, fail) ==
    /\ sw[p].pc = "claims"
    /\ LET c == claims(sw[p].token)
       IN  sw' = [sw EXCEPT ![p] =
                IF fail THEN [@ EXCEPT !.pc = "done", !.result = Err(Debug)]
                ELSE IF ~c.ok THEN [@ EXCEPT !.pc = "done", !.result = Err(c.err)]
                ELSE IF ~signup_accepts(c.token.knd)
                THEN [@ EXCEPT !.pc = "done", !.claims = c.token,
                               !.result = Err(WrongToken)]
                ELSE [@ EXCEPT !.pc = "find", !.claims = c.token]]
    /\ faulted' = (faulted \/ fail)
    /\ UNCHANGED <<now, secrets, cache, nextJti, signed, call, last>>
    /\ UNCHANGED <<users, nextId, pending, mails, events, vc>>
    /\ UNCHANGED <<mfvars, sess>>
    /\ UNCHANGED <<repovars, pgvars>>

\* lines 61-65: cache.find(subject) resolves
SwFind(p, fail) ==
    /\ sw[p].pc = "find"
    /\ LET key == sw[p].claims.sub
           found == ~fail /\ key \in DOMAIN pending
           err == IF fail THEN Debug ELSE NotFound
       IN  sw' = [sw EXCEPT ![p] =
                IF found
                THEN [@ EXCEPT !.pc = after_find(TRUE), !.lookup = "found",
                               !.read = TRUE,
                               !.user = into_user(pending[key].value)]
                ELSE [@ EXCEPT !.pc = after_find(FALSE), !.lookup = err,
                               !.result = Err(credentials_lookup_err(err))]]
    /\ faulted' = (faulted \/ fail)
    /\ UNCHANGED <<now, secrets, cache, nextJti, signed, call, last>>
    /\ UNCHANGED <<users, nextId, pending, mails, events, vc>>
    /\ UNCHANGED <<mfvars, sess>>
    /\ UNCHANGED <<repovars, pgvars>>

\* line 67: token_srv.revoke(&claims) resolves
SwRevoke(p, revokeOk) ==
    /\ sw[p].pc = "revoke"
    /\ cache' = IF revokeOk THEN delete(cache, sw[p].claims.jti) ELSE cache
    /\ sw' = [sw EXCEPT ![p] =
            IF revokeOk
            THEN [@ EXCEPT !.pc = after_revoke(TRUE), !.revoke = "ok"]
            ELSE [@ EXCEPT !.pc = after_revoke(FALSE), !.revoke = "failed",
                           !.result = Err(Debug)]]
    /\ faulted' = (faulted \/ ~revokeOk)
    /\ UNCHANGED <<now, secrets, nextJti, signed, call, last>>
    /\ UNCHANGED <<users, nextId, pending, mails, events, vc>>
    /\ UNCHANGED <<mfvars, sess>>
    /\ UNCHANGED <<repovars, pgvars>>

\* line 74: user_repo.create(user) resolves
SwCreate(p, fail) ==
    /\ sw[p].pc = "create"
    /\ LET out == create(sw[p].user)
           ok == ~fail /\ out.ok
       IN  /\ users' = IF ok THEN users \cup {out.user} ELSE users
           /\ nextId' = IF ok THEN nextId + 1 ELSE nextId
           /\ sw' = [sw EXCEPT ![p] =
                    IF ok
                    THEN [@ EXCEPT !.pc = after_create(TRUE), !.created = TRUE,
                                   !.user = out.user]
                    ELSE [@ EXCEPT !.pc = after_create(FALSE),
                                   !.result = Err(IF fail THEN Debug ELSE out.err)]]
    /\ faulted' = (faulted \/ fail)
    /\ UNCHANGED <<now, secrets, cache, nextJti, signed, call, last>>
    /\ UNCHANGED <<pending, mails, events, vc>>
    /\ UNCHANGED <<mfvars, sess>>
    /\ UNCHANGED <<repovars, pgvars>>

\* line 76: event_srv.emit_user_created(user) resolves
SwEmit(p, emitOk) ==
    /\ sw[p].pc = "emit"
    /\ events' = IF emitOk THEN Append(events, sw[p].user) ELSE events
    /\ sw' = [sw EXCEPT ![p] =
            IF emitOk
            THEN [@ EXCEPT !.pc = after_emit(TRUE), !.emitted = TRUE]
            ELSE [@ EXCEPT !.pc = after_emit(FALSE), !.result = Err(Debug)]]
    /\ faulted' = (faulted \/ ~emitOk)
    /\ UNCHANGED <<now, secrets, cache, nextJti, signed, call, last>>
    /\ UNCHANGED <<users, nextId, pending, mails, vc>>
    /\ UNCHANGED <<mfvars, sess>>
    /\ UNCHANGED <<repovars, pgvars>>

\* lines 78-81: token_srv.issue(Session, user.id) resolves; the call returns
SwIssue(p, issueOk) ==
    /\ sw[p].pc = "issue"
    /\ IF ~issueOk
       THEN /\ sw' = [sw EXCEPT ![p] = [@ EXCEPT !.pc = "done",
                                                 !.result = Err(Debug)]]
            /\ faulted' = TRUE
            /\ UNCHANGED <<cache, nextJti, signed>>
       ELSE /\ nextJti <= MaxTokens
            /\ LET token == generate(Session, session_subject(sw[p].user))
               IN  /\ cache' = save(cache, token.jti, token, timeout(token))
                   /\ signed' = signed \cup {sign(token)}
                   /\ sw' = [sw EXCEPT ![p] = [@ EXCEPT !.pc = "done",
                                                        !.issued = TRUE,
                                                        !.result = Ok(sign(token))]]
            /\ nextJti' = nextJti + 1
            /\ UNCHANGED faulted
    /\ UNCHANGED <<now, secrets, call, last>>
    /\ UNCHANGED <<users, nextId, pending, mails, events, vc>>
    /\ UNCHANGED <<mfvars, sess>>
    /\ UNCHANGED <<repovars, pgvars>>

\* a token issued by another flow sharing the token service: a Reset token,
\* or a Verification token whose credentials are not in the cache
IssueOther(kind) ==
    /\ nextJti <= MaxTokens
    /\ LET token == generate(kind, SubjectOf(kind))
       IN  /\ cache' = save(cache, token.jti, token, timeout(token))
           /\ signed' = signed \cup {sign(token)}
    /\ nextJti' = nextJti + 1
    /\ UNCHANGED <<now, secrets, call, last, suvars>>
    /\ UNCHANGED <<mfvars, sess>>
    /\ UNCHANGED <<repovars, pgvars>>

\* the user application after construction, over a repository that holds
\* one user
InitSignup ==
    /\ now = 0
    /\ secrets = [id \in UserIds |-> NoSecret]
    /\ cache = <<>>
    /\ nextJti = 1
    /\ signed = {}
    /\ call = Idle
    /\ last = NoLogout
    /\ \E mfa \in {NoMfa, TotpMfa} : users = {ExistingUser(mfa)}
    /\ nextId = 1
    /\ pending = <<>>
    /\ mails = {}
    /\ events = <<>>
    /\ vc = VcIdle
    /\ sw = [p \in Procs |-> SwIdle]
    /\ faulted = FALSE
    /\ mf = <<>>
    /\ vault = {}
    /\ sess = <<>>
    /\ all_instances = <<>>
    /\ group_by_app = <<>>
    /\ locks = <<>>
    /\ th = <<>>
    /\ pg = <<>>
    /\ tx = <<>>

NextSignup ==
    \/ \E email \in SignupEmails, pwd \in SignupPasswords : VerifyCredentials(email, pwd)
    \/ \E fail \in BOOLEAN, hashOk \in BOOLEAN, salt \in Salts : VcFound(fail, hashOk, salt)
    \/ \E issueOk \in BOOLEAN : VcIssued(issueOk)
    \/ \E saveOk \in BOOLEAN, mailOk \in BOOLEAN : VcSaved(saveOk, mailOk)
    \/ \E p \in Procs, s \in signed : SignupWithToken(p, s)
    \/ \E p \in Procs, fail \in BOOLEAN : SwClaims(p, fail)
    \/ \E p \in Procs, fail \in BOOLEAN : SwFind(p, fail)
    \/ \E p \in Procs, revokeOk \in BOOLEAN : SwRevoke(p, revokeOk)
    \/ \E p \in Procs, fail \in BOOLEAN : SwCreate(p, fail)
    \/ \E p \in Procs, emitOk \in BOOLEAN : SwEmit(p, emitOk)
    \/ \E p \in Procs, issueOk \in BOOLEAN : SwIssue(p, issueOk)
    \/ \E kind \in {Verification, Reset} : IssueOther(kind)
    \/ TickSignup

SpecSignup == InitSignup /\ [][NextSignup]_vars

----------------------------------------------------------------------------
(* Properties of verify_credentials *)

\* the verify_credentials in flight issued no token, wrote no record and
\* sent no mail
VcNoEffect == vc.claims = NoString /\ ~vc.saved /\ ~vc.mailed

\* C11: verify_credentials for the email of a persisted user, with or
\* without MFA, returns AlreadyExists; no token is issued, nothing is
\* written to the cache and no mail is sent
C11_ExistingEmailAlreadyExists ==
    (vc.pc = "done" /\ vc.lookup = "found") =>
        /\ vc.result = Err(AlreadyExists)
        /\ VcNoEffect

C11_Witness ==
    /\ vc.pc = "done"
    /\ vc.lookup = "found"
    /\ \E u \in users : u.email = vc.email /\ u.mfa = TotpMfa

\* C12: when find_by_email fails with an error other than NotFound,
\* verify_credentials returns that error; no token is issued, nothing is
\* written to the cache and no mail is sent
C12_LookupErrorPropagated ==
    (vc.pc = "done" /\ vc.lookup \notin {"none", "found", NotFound}) =>
        /\ vc.result = Err(vc.lookup)
        /\ VcNoEffect

C12_Witness == vc.pc = "done" /\ vc.lookup = Debug

\* C13: in verify_credentials the token is issued (its liveness entry
\* cached) first, the credentials record saved next, the mail sent last: the
\* step that ends the issue leaves the liveness entry in the cache, and a
\* mail is sent only by the call that waits for the save, carries the token
\* of that call and leaves the record of its credentials under its key
C13_IssueSaveMail ==
    [][/\ (vc.pc = "issue" /\ vc'.pc = "save") =>
              /\ vc'.claims.payload.jti \in DOMAIN cache'
              /\ vc'.claims.payload.jti \notin DOMAIN cache
       /\ \A m \in mails' \ mails :
              /\ vc.pc = "save"
              /\ m.token = vc.claims
              /\ vc'.saved
              /\ vc.key \in DOMAIN pending'
              /\ pending'[vc.key].value = vc.creds]_vars

C13_Witness == vc.mailed /\ \E m \in mails : m.token = vc.claims

\* C14 (as stated): the record and the liveness entry of the token expire at
\* the same instant
C14_ExpireTogether == vc.saved => vc.recordUntil = vc.liveUntil

\* C14 (amended): the record is saved with the timeout of the token issued
\* in the same call as its ttl; it expires no earlier than the liveness
\* entry of the token, and later than it by the time between the issue and
\* the save
C14_TtlIsTokenTimeout ==
    vc.saved =>
        /\ vc.recordUntil = vc.savedAt + timeout(vc.claims.payload)
        /\ vc.recordUntil >= vc.liveUntil
        /\ vc.recordUntil - vc.liveUntil = vc.savedAt - vc.claims.payload.iat
        /\ vc.key \in DOMAIN pending => pending[vc.key].deadline = vc.recordUntil

C14_Witness ==
    /\ vc.saved
    /\ vc.recordUntil > vc.liveUntil
    /\ vc.key \in DOMAIN pending
    /\ vc.claims.payload.jti \notin DOMAIN cache

----------------------------------------------------------------------------
(* Properties of signup_with_token *)

\* the call of p went no further than the kind check: the cache was not
\* read for credentials, the token not revoked, no user created, no event
\* published, no Session token issued
SwNoEffect(p) ==
    /\ sw[p].lookup = "none"
    /\ ~sw[p].read
    /\ sw[p].revoke = "no"
    /\ ~sw[p].created
    /\ ~sw[p].emitted
    /\ ~sw[p].issued

\* the mails that carry the token s
MailsOf(s) == {m \in mails : m.token = s}

\* C15: after a successful verify_credentials the mail is sent to the
\* submitted email with the issued token, whose subject is the key of the
\* saved credentials; the user signup_with_token creates with a mailed token
\* has the email the mail was sent to and the password hash whose
\* fingerprint is the subject of the token
C15_RoundTrip ==
    /\ vc.mailed =>
          /\ [to |-> vc.email, token |-> vc.claims] \in mails
          /\ vc.claims.payload.knd = Verification
          /\ vc.claims.payload.sub = vc.key
          /\ vc.key = fingerprint(vc.creds)
          /\ vc.creds.email = vc.email
          /\ \E salt \in Salts : vc.creds.password = with_salt(vc.pwd, salt)
    /\ \A p \in Procs : \A m \in MailsOf(sw[p].token) :
          sw[p].created =>
              /\ sw[p].user \in users
              /\ sw[p].user.id # 0
              /\ sw[p].user.email = m.to
              /\ fingerprint([email |-> sw[p].user.email,
                              password |-> sw[p].user.password])
                    = m.token.payload.sub

C15_Witness ==
    \E p \in Procs :
        /\ MailsOf(sw[p].token) # {}
        /\ sw[p].created
        /\ sw[p].pc = "done"
        /\ sw[p].result.ok

\* C16: signup_with_token with a live, valid token of another kind than
\* Verification fails with WrongToken and has no effect: the cache is not
\* read for credentials, the token not revoked, no user created, no event
\* emitted, no Session token issued
C16_OtherKindsWrongToken ==
    \A p \in Procs :
        (sw[p].claims # NoToken /\ sw[p].claims.knd # Verification) =>
            /\ sw[p].pc = "done"
            /\ sw[p].result = Err(WrongToken)
            /\ SwNoEffect(p)

C16_Witness ==
    \E p \in Procs :
        /\ sw[p].pc = "done"
        /\ sw[p].claims.knd \in {Session, Reset}
        /\ sw[p].claims.jti \in DOMAIN cache

\* C17: signup_with_token with a live Verification token whose subject has
\* no record in the cache (never saved, or expired) fails with WrongToken,
\* not with the NotFound of the cache; the token is not revoked and no user
\* is created
C17_MissingRecordWrongToken ==
    \A p \in Procs :
        sw[p].lookup = NotFound =>
            /\ sw[p].pc = "done"
            /\ sw[p].result = Err(WrongToken)
            /\ sw[p].revoke = "no"
            /\ ~sw[p].created
            /\ ~sw[p].emitted
            /\ ~sw[p].issued

C17_Witness ==
    \E p \in Procs :
        /\ sw[p].pc = "done"
        /\ sw[p].lookup = NotFound
        /\ sw[p].claims.knd = Verification
        /\ sw[p].claims.jti \in DOMAIN cache

\* C18: the revoke of the token has succeeded, and its liveness entry is
\* gone, before user_repo.create is invoked; when the revoke fails the call
\* returns the error and create, emit and issue are not invoked
C18_RevokeBeforeCreate ==
    \A p \in Procs :
        /\ (sw[p].pc \in {"create", "emit", "issue"} \/ sw[p].created
              \/ sw[p].emitted \/ sw[p].issued) =>
                /\ sw[p].revoke = "ok"
                /\ sw[p].claims.jti \notin DOMAIN cache
        /\ sw[p].revoke = "failed" =>
                /\ sw[p].pc = "done"
                /\ ~sw[p].result.ok
                /\ ~sw[p].created
                /\ ~sw[p].emitted
                /\ ~sw[p].issued

C18_Witness ==
    \E p \in Procs :
        /\ sw[p].pc = "done"
        /\ sw[p].revoke = "failed"
        /\ sw[p].read
        /\ sw[p].claims.jti \in DOMAIN cache

\* C19: after a successful signup_with_token the cache holds no record
\* under the subject of the token
C19_RecordConsumed ==
    \A p \in Procs :
        (sw[p].pc = "done" /\ sw[p].result.ok) =>
            sw[p].claims.sub \notin DOMAIN pending

\* the events published for the email
EventsOf(email) == {i \in DOMAIN events : events[i].email = email}

\* the users persisted with the email
UsersOf(email) == {u \in users : u.email = email}

\* both callers have returned from signup_with_token with the same mailed
\* Verification token, which has not expired, and no collaborator failed
BothRedeemed ==
    /\ ~faulted
    /\ \A p \in Procs : sw[p].pc = "done"
    /\ sw["a"].token = sw["b"].token
    /\ MailsOf(sw["a"].token) # {}
    /\ now < sw["a"].token.payload.exp

\* C20: two signup_with_token calls with the same Verification token,
\* interleaved at their awaits, never publish two user_created events nor
\* persist two users for the email; once both have returned (the token not
\* expired, no collaborator failing) exactly one event was published and one
\* user persisted, at most one call succeeded and a call that failed did so
\* with InvalidToken or AlreadyExists
C20_OneSignupPerToken ==
    /\ \A email \in SignupEmails :
          /\ Cardinality(EventsOf(email)) <= 1
          /\ Cardinality(UsersOf(email)) <= 1
    /\ BothRedeemed =>
          /\ \A m \in MailsOf(sw["a"].token) :
                /\ Cardinality(EventsOf(m.to)) = 1
                /\ Cardinality(UsersOf(m.to)) = 1
          /\ ~(sw["a"].result.ok /\ sw["b"].result.ok)
          /\ \A p \in Procs :
                ~sw[p].result.ok => sw[p].result.err \in {InvalidToken, AlreadyExists}

C20_Witness ==
    /\ BothRedeemed
    /\ \E p \in Procs, q \in Procs :
          /\ sw[p].result.ok
          /\ sw[q].result = Err(AlreadyExists)
          /\ sw[q].revoke = "ok"

\* C21: a Verification token is single-use: a signup_with_token that begins
\* after one with the same token returned Ok fails at the claims step, with
\* InvalidToken when the token service answers; it creates no user, emits
\* no event and issues no Session token
C21_SingleUse ==
    \A p \in Procs :
        (sw[p].later /\ sw[p].pc # "claims") =>
            /\ sw[p].pc = "done"
            /\ sw[p].claims = NoToken
            /\ sw[p].result \in {Err(InvalidToken), Err(Debug)}
            /\ ~faulted => sw[p].result = Err(InvalidToken)
            /\ SwNoEffect(p)

C21_Witness ==
    /\ sw["a"].pc = "done"
    /\ sw["a"].result.ok
    /\ sw["b"].later
    /\ sw["b"].pc = "done"
    /\ sw["b"].result = Err(InvalidToken)
    /\ now < sw["b"].token.payload.exp

\* C22: a successful signup leaves in user.id the id user_repo.create
\* assigned, which is not zero, returns a Session token whose subject is
\* that id as a string, and has emitted user_created once, with the user
\* carrying that id
C22_SignupResult ==
    \A p \in Procs :
        (sw[p].pc = "done" /\ sw[p].result.ok) =>
            /\ sw[p].user.id # 0
            /\ sw[p].user \in users
            /\ sw[p].result.val.payload.knd = Session
            /\ sw[p].result.val.payload.sub = ToString(sw[p].user.id)
            /\ sw[p].result.val.payload.jti # sw[p].claims.jti
            /\ Cardinality({i \in DOMAIN events : events[i] = sw[p].user}) = 1
            /\ Cardinality({i \in DOMAIN events : events[i].id = sw[p].user.id}) = 1

C22_Witness ==
    \E p \in Procs :
        /\ sw[p].pc = "done"
        /\ sw[p].result.ok
        /\ sw[p].issued
        /\ sw[p].result.val \in signed

\* C27: two live Verification tokens mailed by verify_credentials never
\* carry the same credentials fingerprint as their subject
C27_OneLiveTokenPerFingerprint ==
    \A m1 \in mails : \A m2 \in mails :
        (/\ m1.token.payload.sub = m2.token.payload.sub
         /\ m1.token.payload.jti \in DOMAIN cache
         /\ m2.token.payload.jti \in DOMAIN cache) => m1 = m2

\* the liveness entry of the token issued by the verify_credentials in flight
\* is in the cache
VcTokenLive == vc.claims # NoString /\ vc.claims.payload.jti \in DOMAIN cache

\* the credentials record written by the verify_credentials in flight is in
\* the cache
VcRecordKept == vc.saved /\ vc.key \in DOMAIN pending

\* C32 (as stated): when verify_credentials has returned an error the cache
\* holds neither the liveness entry of a Verification token nor a credentials
\* record created by that call
C32_ErrorLeavesNothing ==
    (vc.pc = "done" /\ ~vc.result.ok) => (~VcTokenLive /\ ~VcRecordKept)

\* C32 (amended): when verify_credentials has returned an error no mail was
\* sent, so the token was handed to nobody, and nothing the call wrote is
\* undone: the liveness entry of a token it issued stays in the cache until
\* its ttl is over, and so does the record when the save succeeded and the
\* mail failed; a call that failed before the issue wrote nothing
C32_ErrorLeavesUnmailedToken ==
    (vc.pc = "done" /\ ~vc.result.ok) =>
        /\ ~vc.mailed
        /\ \A m \in mails : m.token # vc.claims
        /\ vc.claims = NoString => VcNoEffect
        /\ vc.claims # NoString => (VcTokenLive <=> vc.liveUntil > now)
        /\ vc.saved => (VcRecordKept <=> vc.recordUntil > now)

\* the mail failed after the record was saved: the call returned an error,
\* the token is live and the record is in the cache
C32_Witness ==
    /\ vc.pc = "done" /\ ~vc.result.ok
    /\ vc.saved /\ ~vc.mailed
    /\ VcTokenLive /\ VcRecordKept

\* the call of p returned an error from user_repo.create or from
\* emit_user_created
FailedInSignup(p) ==
    /\ sw[p].pc = "done"
    /\ sw[p].read
    /\ sw[p].revoke # "failed"
    /\ ~sw[p].emitted

\* C33: when user_repo.create or emit_user_created fails inside
\* signup_with_token the Verification token was revoked before and is not
\* put back: its liveness entry is not in the cache, and a signup_with_token
\* that begins with the same token afterwards fails at the claims step, with
\* InvalidToken when the token service answers, and changes nothing
C33_RevokedNotReinstated ==
    \A p \in Procs :
        /\ FailedInSignup(p) =>
              /\ ~sw[p].result.ok
              /\ sw[p].revoke = "ok"
              /\ sw[p].claims.jti \notin DOMAIN cache
              /\ ~claims(sw[p].token).ok
        /\ (sw[p].retry /\ sw[p].pc # "claims") =>
              /\ sw[p].pc = "done"
              /\ sw[p].claims = NoToken
              /\ sw[p].result \in {Err(InvalidToken), Err(Debug)}
              /\ ~faulted => sw[p].result = Err(InvalidToken)
              /\ SwNoEffect(p)

\* the create of "a" failed after the revoke; "b" retried with the same
\* token before it expired and got InvalidToken, while the credentials
\* record is still in the cache
C33_Witness ==
    /\ FailedInSignup("a")
    /\ ~sw["a"].created
    /\ sw["b"].retry
    /\ sw["b"].pc = "done"
    /\ sw["b"].result = Err(InvalidToken)
    /\ now < sw["b"].token.payload.exp
    /\ sw["a"].claims.sub \in DOMAIN pending

\* C29: in signup the event is emitted only after create succeeded and the
\* Session token issued only after the emit succeeded: a call whose create
\* failed emits nothing and issues nothing, a call whose emit failed issues
\* and returns no Session token
C29_CreateEmitIssue ==
    \A p \in Procs :
        /\ (sw[p].pc = "emit" \/ sw[p].emitted) =>
              sw[p].created /\ sw[p].user \in users
        /\ (sw[p].pc = "issue" \/ sw[p].issued) =>
              /\ sw[p].emitted
              /\ \E i \in DOMAIN events : events[i] = sw[p].user
        /\ (sw[p].pc = "done" /\ ~sw[p].created) =>
              ~sw[p].emitted /\ ~sw[p].issued /\ ~sw[p].result.ok
        /\ (sw[p].pc = "done" /\ ~sw[p].emitted) =>
              ~sw[p].issued /\ ~sw[p].result.ok

C29_Witness ==
    \E p \in Procs :
        /\ sw[p].pc = "done"
        /\ sw[p].created
        /\ ~sw[p].emitted
        /\ sw[p].result = Err(Debug)

----------------------------------------------------------------------------
(* User application: MFA flows (src/src/user/application/mfa.rs) *)

\* inputs of the MFA flows: the password, the one-time password (absent,
\* or a code), the id of the user
MfaPasswords == {"abcABC123&", "fake"}
NoOtp == ""
Otps == {NoOtp, "111111"}
MfaUserIds == {999}
MfaOps == {"enable", "disable"}

\* the subject of the Session and Reset tokens of the MFA flows: the id of
\* the user
MfaSubjectOf(kind) == ToString(999)

\* str::parse::<i32> of the subject
parse(sub) ==
    IF \E id \in MfaUserIds \cup UserIds : ToString(id) = sub
    THEN [ok |-> TRUE, id |-> CHOOSE id \in MfaUserIds \cup UserIds : ToString(id) = sub]
    ELSE [ok |-> FALSE, id |-> 0]

\* UserRepository::find(user_id)
su_find(id) ==
    IF \E u \in users : u.id = id
    THEN [ok |-> TRUE, err |-> "", user |-> CHOOSE u \in users : u.id = id]
    ELSE [ok |-> FALSE, err |-> NotFound, user |-> NoNewUser]

\* UserRepository::save(user): the record of the user's id is replaced
su_save(user) == {u \in users : u.id # user.id} \cup {user}

\* User::password_matches(password): the hash of the password with the
\* salt of the stored hash is the stored hash
password_matches(user, pwd) == user.password = with_salt(pwd, user.password[2])

\* the secrets of the owner, of the kind of the TOTP method
SecretsOf(owner) == {s \in vault : s.owner = owner /\ s.kind = TotpMfa}

\* the one-time password is the code of a secret of the user
otp_valid(user, otp) ==
    \E s \in SecretsOf(user.id) : verify_totp(s.data, otp).ok

\* MfaService::enable(user, otp) before it writes: "create" when the user
\* has no secret of the kind, "activate" when a secret exists, MFA is not
\* active and the otp proves the seed, else the error
mfa_enable(user, otp) ==
    IF SecretsOf(user.id) = {} THEN "create"
    ELSE IF user.mfa = NoMfa
    THEN IF otp_valid(user, otp) THEN "activate" ELSE Unauthorized
    ELSE AlreadyExists

\* SecretRepository::create(secret): (owner, kind) is a unique key
secret_create(secret) ==
    IF SecretsOf(secret.owner) # {}
    THEN [ok |-> FALSE, err |-> AlreadyExists, vault |-> vault]
    ELSE [ok |-> TRUE, err |-> "", vault |-> vault \cup {secret}]

\* MfaService::verify(user, otp): a user with MFA enabled needs a valid otp
mfa_verify(user, otp) ==
    IF user.mfa # NoMfa /\ SecretsOf(user.id) # {}
    THEN IF otp_valid(user, otp) THEN Ok(NoString) ELSE Err(Unauthorized)
    ELSE Ok(NoString)

\* a call of the MFA flows in flight: position, operation, arguments,
\* locals; loaded whether the user was loaded, matched the outcome of the
\* password check, verify, enable and disable the outcome of the calls of
\* the MFA service ("no" while not invoked), raced whether the secret
\* repository refused the secret of this call, saved whether user_repo.save
\* persisted the user
MfIdle == [pc |-> "idle", op |-> "none", token |-> NoString, claims |-> NoToken,
           id |-> 0, pwd |-> "", otp |-> NoOtp, user |-> NoNewUser,
           loaded |-> FALSE, matched |-> "none", verify |-> "no",
           enable |-> "no", disable |-> "no", raced |-> FALSE,
           saved |-> FALSE, result |-> Pending]

\* every kind of token accepted
mfa_accepts_any(knd) == TRUE

\* lines 33-35 and 79-81: only a Session token is accepted
mfa_accepts(knd) == is_session(knd)

\* the outcome of the password check ignored
password_rejected_never(matches) == FALSE

\* lines 56-58 and 102-104: a password that does not match is rejected
password_rejected(matches) == ~matches

\* the error of mfa_srv.enable dropped: the call goes on to save
after_enable_unchecked(enabled) == "save"

\* lines 62-67: mfa_srv.enable(..).await ... ?, then user_repo.save
after_enable(enabled) == IF enabled THEN "save" ELSE "done"

\* the error of mfa_srv.verify dropped: the call goes on to disable
after_verify_unchecked(verified) == "disable"

\* lines 106-108: mfa_srv.verify(..).await?, then mfa_srv.disable
after_verify(verified) == IF verified THEN "disable" ELSE "done"

\* the error of mfa_srv.disable dropped: the call goes on to save
after_disable_unchecked(disabled) == "save"

\* lines 108-114: mfa_srv.disable(..).await ... ?, then the preference is
\* cleared and the user saved
after_disable(disabled) == IF disabled THEN "save" ELSE "done"

\* lines 25 and 71: enable_mfa_with_token / disable_mfa_with_token, with a
\* token a caller holds; the caller is "a", and a new call of "a" forgets
\* the call of "b" that returned
MfaWithToken(p, op, s, pwd, otp) ==
    /\ mf[p].pc \in {"idle", "done"}
    /\ p = "a"
    /\ mf["b"].pc \in {"idle", "done"}
    /\ mf' = [q \in DOMAIN mf |->
                IF q = p
                THEN [MfIdle EXCEPT !.pc = "claims", !.op = op, !.token = s,
                                    !.pwd = pwd, !.otp = otp]
                ELSE IF p = "a" THEN MfIdle ELSE mf[q]]
    /\ UNCHANGED <<now, secrets, cache, nextJti, signed, call, last, suvars, vault>>
    /\ UNCHANGED sess
    /\ UNCHANGED <<repovars, pgvars>>

\* lines 47 and 93: enable_mfa / disable_mfa; of two callers "a" is the
\* first to call, and a new call of "a" forgets the call of "b" that returned
Mfa(p, op, id, pwd, otp) ==
    /\ mf[p].pc \in {"idle", "done"}
    /\ p = "a" => mf["b"].pc \in {"idle", "done"}
    /\ p = "b" => mf["a"].pc # "idle"
    /\ mf' = [q \in DOMAIN mf |->
                IF q = p
                THEN [MfIdle EXCEPT !.pc = "find", !.op = op, !.id = id,
                                    !.pwd = pwd, !.otp = otp]
                ELSE IF p = "a" THEN MfIdle ELSE mf[q]]
    /\ UNCHANGED <<now, secrets, cache, nextJti, signed, call, last, suvars, vault>>
    /\ UNCHANGED sess
    /\ UNCHANGED <<repovars, pgvars>>

\* lines 32-43 and 78-89: token_srv.claims(token) resolves; the kind check;
\* the subject parsed
MfClaims(p, fail) ==
    /\ mf[p].pc = "claims"
    /\ LET c == claims(mf[p].token)
           id == parse(c.token.sub)
       IN  mf' = [mf EXCEPT ![p] =
                IF fail THEN [@ EXCEPT !.pc = "done", !.result = Err(Debug)]
                ELSE IF ~c.ok THEN [@ EXCEPT !.pc = "done", !.result = Err(c.err)]
                ELSE IF ~mfa_accepts(c.token.knd)
                THEN [@ EXCEPT !.pc = "done", !.claims = c.token,
                               !.result = Err(WrongToken)]
                ELSE IF ~id.ok
                THEN [@ EXCEPT !.pc = "done", !.claims = c.token,
                               !.result = Err(Debug)]
                ELSE [@ EXCEPT !.pc = "find", !.claims = c.token, !.id = id.id]]
    /\ UNCHANGED <<now, secrets, cache, nextJti, signed, call, last, suvars, vault>>
    /\ UNCHANGED sess
    /\ UNCHANGED <<repovars, pgvars>>

\* lines 54-60 and 100-104: user_repo.find(user_id) resolves; the password
\* check; enable_mfa sets the preference of its copy of the user
MfFind(p, fail, matchOk) ==
    /\ mf[p].pc = "find"
    /\ LET found == IF fail THEN [ok |-> FALSE, err |-> Debug, user |-> NoNewUser]
                    ELSE su_find(mf[p].id)
           matches == password_matches(found.user, mf[p].pwd)
       IN  mf' = [mf EXCEPT ![p] =
                IF ~found.ok
                THEN [@ EXCEPT !.pc = "done", !.result = Err(found.err)]
                ELSE IF ~matchOk
                THEN [@ EXCEPT !.pc = "done", !.loaded = TRUE, !.user = found.user,
                               !.result = Err(Debug)]
                ELSE IF password_rejected(matches)
                THEN [@ EXCEPT !.pc = "done", !.loaded = TRUE, !.user = found.user,
                               !.matched = IF matches THEN "yes" ELSE "no",
                               !.result = Err(WrongCredentials)]
                ELSE IF mf[p].op = "enable"
                THEN [@ EXCEPT !.pc = "enable", !.loaded = TRUE,
                               !.matched = IF matches THEN "yes" ELSE "no",
                               !.user = [found.user EXCEPT !.mfa = TotpMfa]]
                ELSE [@ EXCEPT !.pc = "verify", !.loaded = TRUE,
                               !.matched = IF matches THEN "yes" ELSE "no",
                               !.user = found.user]]
    /\ UNCHANGED <<now, secrets, cache, nextJti, signed, call, last, suvars, vault>>
    /\ UNCHANGED sess
    /\ UNCHANGED <<repovars, pgvars>>

\* lines 62-65: mfa_srv.enable(&user, otp) reads the secrets of the user
MfEnableCheck(p, fail) ==
    /\ mf[p].pc = "enable"
    /\ LET out == IF fail THEN Debug ELSE mfa_enable(mf[p].user, mf[p].otp)
       IN  mf' = [mf EXCEPT ![p] =
                IF out = "create" THEN [@ EXCEPT !.pc = "create"]
                ELSE IF out = "activate"
                THEN [@ EXCEPT !.pc = after_enable(TRUE), !.enable = "ok"]
                ELSE [@ EXCEPT !.pc = after_enable(FALSE), !.enable = "failed",
                               !.result = Err(out)]]
    /\ UNCHANGED <<now, secrets, cache, nextJti, signed, call, last, suvars, vault>>
    /\ UNCHANGED sess
    /\ UNCHANGED <<repovars, pgvars>>

\* lines 62-65: mfa_srv.enable(&user, otp) creates the secret and resolves
MfEnableCreate(p, fail) ==
    /\ mf[p].pc = "create"
    /\ LET secret == [owner |-> mf[p].user.id, kind |-> TotpMfa,
                      data |-> "secret_data", id |-> Cardinality(vault) + 1]
           out == secret_create(secret)
           ok == ~fail /\ out.ok
       IN  /\ vault' = IF ok THEN out.vault ELSE vault
           /\ mf' = [mf EXCEPT ![p] =
                    IF ok
                    THEN [@ EXCEPT !.pc = after_enable(TRUE), !.enable = "ok"]
                    ELSE [@ EXCEPT !.pc = after_enable(FALSE), !.enable = "failed",
                                   !.raced = ~fail,
                                   !.result = Err(IF fail THEN Debug ELSE out.err)]]
    /\ UNCHANGED <<now, secrets, cache, nextJti, signed, call, last, suvars>>
    /\ UNCHANGED sess
    /\ UNCHANGED <<repovars, pgvars>>

\* line 106: mfa_srv.verify(&user, otp) resolves
MfVerify(p, fail) ==
    /\ mf[p].pc = "verify"
    /\ LET out == IF fail THEN Err(Debug) ELSE mfa_verify(mf[p].user, mf[p].otp)
       IN  mf' = [mf EXCEPT ![p] =
                IF out.ok
                THEN [@ EXCEPT !.pc = after_verify(TRUE), !.verify = "ok"]
                ELSE [@ EXCEPT !.pc = after_verify(FALSE), !.verify = "failed",
                               !.result = out]]
    /\ UNCHANGED <<now, secrets, cache, nextJti, signed, call, last, suvars, vault>>
    /\ UNCHANGED sess
    /\ UNCHANGED <<repovars, pgvars>>

\* lines 108-113: mfa_srv.disable(&user, otp) removes the secret and
\* resolves; the preference of the copy of the user is cleared
MfDisable(p, fail) ==
    /\ mf[p].pc = "disable"
    /\ vault' = IF fail THEN vault ELSE vault \ SecretsOf(mf[p].user.id)
    /\ mf' = [mf EXCEPT ![p] =
            IF ~fail
            THEN [@ EXCEPT !.pc = after_disable(TRUE), !.disable = "ok",
                           !.user = [@ EXCEPT !.mfa = NoMfa]]
            ELSE [@ EXCEPT !.pc = after_disable(FALSE), !.disable = "failed",
                           !.result = Err(Debug)]]
    /\ UNCHANGED <<now, secrets, cache, nextJti, signed, call, last, suvars>>
    /\ UNCHANGED sess
    /\ UNCHANGED <<repovars, pgvars>>

\* lines 67 and 114: user_repo.save(&user) resolves; the call returns
MfSave(p, saveOk) ==
    /\ mf[p].pc = "save"
    /\ users' = IF saveOk THEN su_save(mf[p].user) ELSE users
    /\ mf' = [mf EXCEPT ![p] =
            IF saveOk
            THEN [@ EXCEPT !.pc = "done", !.saved = TRUE, !.result = Ok(NoString)]
            ELSE [@ EXCEPT !.pc = "done", !.result = Err(Debug)]]
    /\ UNCHANGED <<now, secrets, cache, nextJti, signed, call, last, vault>>
    /\ UNCHANGED <<nextId, pending, mails, events, vc, sw, faulted>>
    /\ UNCHANGED sess
    /\ UNCHANGED <<repovars, pgvars>>

\* a Session or Reset token issued by a flow sharing the token service; one
\* token of a kind stands for all of them
IssueMfa(kind) ==
    /\ nextJti <= MaxTokens
    /\ \A s \in signed : s.payload.knd # kind
    /\ LET token == generate(kind, MfaSubjectOf(kind))
       IN  /\ cache' = save(cache, token.jti, token, timeout(token))
           /\ signed' = signed \cup {sign(token)}
    /\ nextJti' = nextJti + 1
    /\ UNCHANGED <<now, secrets, call, last, suvars, mfvars>>
    /\ UNCHANGED <<repovars, pgvars>>
    /\ UNCHANGED sess
    /\ UNCHANGED <<repovars, pgvars>>

\* the user application over a repository that holds one user, without
\* MFA and without secret, or with MFA and its secret
InitMfa ==
    /\ now = 0
    /\ secrets = [id \in UserIds |-> NoSecret]
    /\ cache = <<>>
    /\ nextJti = 1
    /\ signed = {}
    /\ call = Idle
    /\ last = NoLogout
    /\ \/ users = {ExistingUser(NoMfa)} /\ vault = {}
       \/ /\ users = {ExistingUser(TotpMfa)}
          /\ vault = {[owner |-> 999, kind |-> TotpMfa, data |-> "secret_data",
                       id |-> 1]}
    /\ nextId = 1
    /\ pending = <<>>
    /\ mails = {}
    /\ events = <<>>
    /\ vc = VcIdle
    /\ sw = [p \in Procs |-> SwIdle]
    /\ faulted = FALSE
    /\ mf = [p \in Procs |-> MfIdle]
    /\ sess = <<>>
    /\ all_instances = <<>>
    /\ group_by_app = <<>>
    /\ locks = <<>>
    /\ th = <<>>
    /\ pg = <<>>
    /\ tx = <<>>

NextMfa ==
    \/ \E p \in Procs, op \in MfaOps, s \in signed, pwd \in MfaPasswords, otp \in Otps :
          MfaWithToken(p, op, s, pwd, otp)
    \/ \E p \in Procs, op \in MfaOps, id \in MfaUserIds, pwd \in MfaPasswords, otp \in Otps :
          Mfa(p, op, id, pwd, otp)
    \/ \E p \in Procs, fail \in BOOLEAN : MfClaims(p, fail)
    \/ \E p \in Procs, fail \in BOOLEAN, matchOk \in BOOLEAN : MfFind(p, fail, matchOk)
    \/ \E p \in Procs, fail \in BOOLEAN : MfEnableCheck(p, fail)
    \/ \E p \in Procs, fail \in BOOLEAN : MfEnableCreate(p, fail)
    \/ \E p \in Procs, fail \in BOOLEAN : MfVerify(p, fail)
    \/ \E p \in Procs, fail \in BOOLEAN : MfDisable(p, fail)
    \/ \E p \in Procs, saveOk \in BOOLEAN : MfSave(p, saveOk)
    \/ \E kind \in {Session, Reset} : IssueMfa(kind)

SpecMfa == InitMfa /\ [][NextMfa]_vars

----------------------------------------------------------------------------
(* Properties of the MFA flows *)

\* the call of p invoked no operation of the MFA service and did not
\* persist the user
MfNoEffect(p) ==
    /\ mf[p].verify = "no"
    /\ mf[p].enable = "no"
    /\ mf[p].disable = "no"
    /\ ~mf[p].raced
    /\ ~mf[p].saved

\* C23: enable_mfa_with_token and disable_mfa_with_token with a live token
\* of another kind than Session return WrongToken: the user is not loaded,
\* the MFA service is not called and the user is not persisted
C23_MfaOtherKindsWrongToken ==
    \A p \in Procs :
        (mf[p].claims # NoToken /\ mf[p].claims.knd # Session) =>
            /\ mf[p].pc = "done"
            /\ mf[p].result = Err(WrongToken)
            /\ ~mf[p].loaded
            /\ mf[p].user = NoNewUser
            /\ MfNoEffect(p)

C23_Witness ==
    \E p \in Procs :
        /\ mf[p].pc = "done"
        /\ mf[p].op = "disable"
        /\ mf[p].claims.knd = Reset
        /\ mf[p].claims.jti \in DOMAIN cache

\* C24: enable_mfa and disable_mfa with a password that does not match the
\* password of the loaded user return WrongCredentials before any call of
\* the MFA service and before user_repo.save
C24_MfaWrongPassword ==
    \A p \in Procs :
        (mf[p].loaded /\ mf[p].matched # "none"
            /\ ~password_matches(mf[p].user, mf[p].pwd)) =>
            /\ mf[p].pc = "done"
            /\ mf[p].result = Err(WrongCredentials)
            /\ MfNoEffect(p)

C24_Witness ==
    \E p \in Procs :
        /\ mf[p].pc = "done"
        /\ mf[p].op = "enable"
        /\ mf[p].matched = "no"
        /\ mf[p].pwd = "fake"

\* C25: disable_mfa goes from the password match to mfa_srv.verify, to
\* mfa_srv.disable, to the clearing of the preference, to user_repo.save:
\* disable is invoked only after verify succeeded, and the user is saved,
\* with no MFA method, only after disable succeeded
C25_DisableOrder ==
    \A p \in Procs :
        mf[p].op = "disable" =>
            /\ (mf[p].pc = "verify" \/ mf[p].verify # "no") =>
                  mf[p].matched = "yes"
            /\ (mf[p].pc = "disable" \/ mf[p].disable # "no") =>
                  mf[p].verify = "ok"
            /\ (mf[p].pc = "save" \/ mf[p].saved) =>
                  /\ mf[p].disable = "ok"
                  /\ mf[p].user.mfa = NoMfa
            /\ mf[p].enable = "no"

C25_Witness ==
    \E p \in Procs :
        /\ mf[p].op = "disable"
        /\ mf[p].pc = "done"
        /\ mf[p].verify = "failed"
        /\ mf[p].result = Err(Unauthorized)
        /\ SecretsOf(mf[p].user.id) # {}

\* C26: however two enable_mfa calls for the same user interleave, the user
\* has at most one secret of the kind; the call whose secret the
\* repository refuses fails with AlreadyExists, and a call whose
\* mfa_srv.enable failed does not persist the user
C26_OneSecretPerUser ==
    /\ \A id \in MfaUserIds : Cardinality(SecretsOf(id)) <= 1
    /\ \A p \in Procs :
          mf[p].op = "enable" =>
              /\ mf[p].raced =>
                    /\ mf[p].enable = "failed"
                    /\ mf[p].result = Err(AlreadyExists)
              /\ mf[p].enable = "failed" =>
                    /\ mf[p].pc = "done"
                    /\ ~mf[p].saved

C26_Witness ==
    \E p \in Procs, q \in Procs :
        /\ mf[p].op = "enable" /\ mf[q].op = "enable"
        /\ mf[p].raced
        /\ mf[p].pc = "done"
        /\ mf[q].enable = "ok"
        /\ mf[q].saved

\* no enable_mfa / disable_mfa is in flight
Quiescent == \A p \in Procs : mf[p].pc \in {"idle", "done"}

\* C30: in every quiescent state a persisted user has an MFA method set if
\* and only if a secret of the matching kind exists for that user
C30_PreferenceMatchesSecret ==
    Quiescent =>
        \A u \in users : (u.mfa = TotpMfa) <=> (SecretsOf(u.id) # {})

----------------------------------------------------------------------------
(* Session::new and the session timeout (src/src/session/mod.rs,
   src/src/constants.rs) *)

\* the last instant of the clock of the test
MaxClock == 5

\* one hour, instead of the day
TOKEN_TIMEOUT_hour == 60 * 60

\* settings::TOKEN_TIMEOUT, in seconds
TOKEN_TIMEOUT == 86400

\* the timeouts a session is created with: TIMEOUT of the test, and the
\* default of the settings
Timeouts == {10, TOKEN_TIMEOUT}

\* Session::new(.., timeout).deadline for a session created at instant t
session_deadline(t, ttl) == t + ttl

\* domain_session_new_ok: position, TIMEOUT, the instants before and after,
\* the instant of the creation and the deadline of the session
SessIdle == [pc |-> "idle", timeout |-> 0, before |-> 0, created |-> 0,
             deadline |-> 0, after |-> 0]

\* line 95: let before = SystemTime::now()
TestBefore(ttl) ==
    /\ sess.pc \in {"idle", "done"}
    /\ sess' = [SessIdle EXCEPT !.pc = "new", !.timeout = ttl, !.before = now]
    /\ UNCHANGED <<now, secrets, cache, nextJti, signed, call, last, suvars, mfvars>>
    /\ UNCHANGED <<repovars, pgvars>>

\* lines 96-98: Session::new(&mock_impl, user, TIMEOUT)
SessionNew ==
    /\ sess.pc = "new"
    /\ sess' = [sess EXCEPT !.pc = "after", !.created = now,
                            !.deadline = session_deadline(now, sess.timeout)]
    /\ UNCHANGED <<now, secrets, cache, nextJti, signed, call, last, suvars, mfvars>>
    /\ UNCHANGED <<repovars, pgvars>>

\* line 100: let after = SystemTime::now()
TestAfter ==
    /\ sess.pc = "after"
    /\ sess' = [sess EXCEPT !.pc = "done", !.after = now]
    /\ UNCHANGED <<now, secrets, cache, nextJti, signed, call, last, suvars, mfvars>>
    /\ UNCHANGED <<repovars, pgvars>>

\* the clock of the system advances
TickSession ==
    /\ now < MaxClock
    /\ now' = now + 1
    /\ UNCHANGED <<secrets, cache, nextJti, signed, call, last, suvars, mfvars, sess>>
    /\ UNCHANGED <<repovars, pgvars>>

InitSession ==
    /\ now = 0
    /\ secrets = [id \in UserIds |-> NoSecret]
    /\ cache = <<>>
    /\ nextJti = 1
    /\ signed = {}
    /\ call = Idle
    /\ last = NoLogout
    /\ users = {}
    /\ nextId = 1
    /\ pending = <<>>
    /\ mails = {}
    /\ events = <<>>
    /\ vc = VcIdle
    /\ sw = [p \in Procs |-> SwIdle]
    /\ faulted = FALSE
    /\ mf = [p \in Procs |-> MfIdle]
    /\ vault = {}
    /\ sess = SessIdle
    /\ all_instances = <<>>
    /\ group_by_app = <<>>
    /\ locks = <<>>
    /\ th = <<>>
    /\ pg = <<>>
    /\ tx = <<>>

NextSession ==
    \/ \E ttl \in Timeouts : TestBefore(ttl)
    \/ SessionNew
    \/ TestAfter
    \/ TickSession

SpecSession == InitSession /\ [][NextSession]_vars

----------------------------------------------------------------------------
(* InMemorySessionRepository: values (src/src/session/framework.rs) *)

\* the threads calling the repository
Threads == {"t1", "t2"}

\* application urls, session ids and user emails
Urls == {"app1"}
Sids == {"sid1", "sid2"}

\* the sid of a session handed to save: none yet, or one a session may have
IncomingSids == {"", "sid1"}
RepoEmails == {"a@server.domain", "b@server.domain"}

\* constants::errors, and the Ok(..) of an operation
NOT_FOUND == "not found"
ALREADY_EXISTS == "already exists"
RepoOk == "ok"

\* a Session as the repository uses it: sid, user.email, and the urls of the
\* directories it holds
NewSession(sid, email, dirs) == [sid |-> sid, email |-> email, dirs |-> dirs]

\* Session::delete_directory(url)
delete_directory(session, url) == [session EXCEPT !.dirs = @ \ {url}]

\* the RwLocks: the two of the repository, the one around each group's set of
\* sids and the one around each session
GroupLock == [kind |-> "group_by_app", key |-> ""]
RepoLock == [kind |-> "all_instances", key |-> ""]
SidsLock(url) == [kind |-> "sids", key |-> url]
SessionLock(sid) == [kind |-> "session", key |-> sid]

LockIds ==
    {GroupLock, RepoLock} \cup {SidsLock(u) : u \in Urls}
        \cup {SessionLock(s) : s \in Sids}

\* an RwLock nobody holds: no writer, no readers
Unlocked == [w |-> "", r |-> {}]

\* RwLock::read and RwLock::write return at once when these hold
can_read(l) == locks[l].w = ""
can_write(l) == locks[l].w = "" /\ locks[l].r = {}

\* the guard obtained by thread t
read(L, l, t) == [L EXCEPT ![l].r = @ \cup {t}]
write(L, l, t) == [L EXCEPT ![l].w = t]

\* the guards of thread t dropped
release(L, t) ==
    [l \in DOMAIN L |-> [w |-> IF L[l].w = t THEN "" ELSE L[l].w,
                         r |-> L[l].r \ {t}]]

\* one guard of thread t dropped
drop(L, l, t) ==
    [L EXCEPT ![l] = [w |-> IF @.w = t THEN "" ELSE @.w, r |-> @.r \ {t}]]

\* the locks thread t holds
HeldBy(t) == {l \in LockIds : locks[l].w = t \/ t \in locks[l].r}

\* a call of thread t: position, operation, arguments (url, sid, email,
\* dirs); todo are the sids delete_all_by_app has still to visit and listed
\* the sids the call found in the group, size the length read by remove or
\* destroy_group, assigned the sid chosen by save, result what it returned
ThIdle == [pc |-> "idle", op |-> "", url |-> "", sid |-> "", email |-> "",
           dirs |-> {}, todo |-> {}, listed |-> {}, size |-> 0,
           assigned |-> "", result |-> ""]

\* thread t can begin a call
Ready(t) == th[t].pc \in {"idle", "done"}

\* the variables the repository does not touch
outside_repo ==
    <<now, secrets, cache, nextJti, signed, call, last, suvars, mfvars, sess, pgvars>>

----------------------------------------------------------------------------
(* impl SessionRepository for &InMemorySessionRepository *)

\* the map without a key
without(m, k) == [x \in DOMAIN m \ {k} |-> m[x]]

\* the map with a key inserted or overwritten
insert(m, k, v) == [x \in DOMAIN m \cup {k} |-> IF x = k THEN v ELSE m[x]]

\* an email taken for unknown whatever the sessions hold
has_email_never(repo, email) == FALSE

\* lines 114-120, 251, 264: some session of the map has the email
has_email(repo, email) == \E s \in DOMAIN repo : repo[s].email = email

\* session_has_email takes the read lock of each session it looks at
sessions_readable == \A s \in DOMAIN all_instances : can_read(SessionLock(s))

\* lines 240-247: find(token), under the read lock of all_instances
Find(t, token) ==
    /\ Ready(t)
    /\ can_read(RepoLock)
    /\ th' = [th EXCEPT ![t] =
            [ThIdle EXCEPT !.pc = "done", !.op = "find", !.sid = token,
                !.result = IF token \in DOMAIN all_instances
                           THEN RepoOk ELSE NOT_FOUND]]
    /\ UNCHANGED <<all_instances, group_by_app, locks>>
    /\ UNCHANGED outside_repo

\* line 250: find_by_email(email) takes the read lock of all_instances
FindByEmail(t, email) ==
    /\ Ready(t)
    /\ can_read(RepoLock)
    /\ locks' = read(locks, RepoLock, t)
    /\ th' = [th EXCEPT ![t] =
            [ThIdle EXCEPT !.pc = "find_by_email", !.op = "find_by_email",
                           !.email = email]]
    /\ UNCHANGED <<all_instances, group_by_app>>
    /\ UNCHANGED outside_repo

\* lines 251-255: the sessions are searched for the email
FindByEmailScan(t) ==
    /\ th[t].pc = "find_by_email"
    /\ sessions_readable
    /\ locks' = release(locks, t)
    /\ th' = [th EXCEPT ![t].pc = "done",
                        ![t].result = IF has_email(all_instances, th[t].email)
                                      THEN RepoOk ELSE NOT_FOUND]
    /\ UNCHANGED <<all_instances, group_by_app>>
    /\ UNCHANGED outside_repo

\* lines 259-262: save(session) takes the write lock of all_instances; a
\* session whose sid is a key of the map is refused
Save(t, sid, email, dirs) ==
    /\ Ready(t)
    /\ can_write(RepoLock)
    /\ IF sid \in DOMAIN all_instances
       THEN /\ th' = [th EXCEPT ![t] =
                    [ThIdle EXCEPT !.pc = "done", !.op = "save", !.sid = sid,
                                   !.email = email, !.dirs = dirs,
                                   !.result = ALREADY_EXISTS]]
            /\ UNCHANGED locks
       ELSE /\ th' = [th EXCEPT ![t] =
                    [ThIdle EXCEPT !.pc = "save_scan", !.op = "save", !.sid = sid,
                                   !.email = email, !.dirs = dirs]]
            /\ locks' = write(locks, RepoLock, t)
    /\ UNCHANGED <<all_instances, group_by_app>>
    /\ UNCHANGED outside_repo

\* lines 264-283: a session with the same email is refused; otherwise the
\* session gets a random sid that is not a key of the map and is inserted
\* under it
SaveScan(t, fresh) ==
    /\ th[t].pc = "save_scan"
    /\ sessions_readable
    /\ IF has_email(all_instances, th[t].email)
       THEN /\ th' = [th EXCEPT ![t].pc = "done", ![t].result = ALREADY_EXISTS]
            /\ UNCHANGED all_instances
       ELSE /\ fresh \notin DOMAIN all_instances
            /\ all_instances' = insert(all_instances, fresh,
                                       NewSession(fresh, th[t].email, th[t].dirs))
            /\ th' = [th EXCEPT ![t].pc = "done", ![t].assigned = fresh,
                                ![t].result = RepoOk]
    /\ locks' = release(locks, t)
    /\ UNCHANGED group_by_app
    /\ UNCHANGED outside_repo

\* lines 285-292: delete(session), under the write lock of all_instances
Delete(t, sid) ==
    /\ Ready(t)
    /\ can_write(RepoLock)
    /\ all_instances' = without(all_instances, sid)
    /\ th' = [th EXCEPT ![t] =
            [ThIdle EXCEPT !.pc = "done", !.op = "delete", !.sid = sid,
                !.result = IF sid \in DOMAIN all_instances
                           THEN RepoOk ELSE NOT_FOUND]]
    /\ UNCHANGED <<group_by_app, locks>>
    /\ UNCHANGED outside_repo

----------------------------------------------------------------------------
(* impl GroupByAppRepository for &InMemorySessionRepository *)

\* lines 296-303: get(url), under the read lock of group_by_app
Get(t, url) ==
    /\ Ready(t)
    /\ can_read(GroupLock)
    /\ th' = [th EXCEPT ![t] =
            [ThIdle EXCEPT !.pc = "done", !.op = "get", !.url = url,
                !.result = IF url \in DOMAIN group_by_app
                           THEN RepoOk ELSE NOT_FOUND]]
    /\ UNCHANGED <<all_instances, group_by_app, locks>>
    /\ UNCHANGED outside_repo

\* lines 305-308, 315-322: store(url, sid) takes the read lock of
\* group_by_app and looks the url up; without a group the lock is dropped
\* and create_group follows
Store(t, url, sid) ==
    /\ Ready(t)
    /\ can_read(GroupLock)
    /\ IF url \in DOMAIN group_by_app
       THEN /\ th' = [th EXCEPT ![t] =
                    [ThIdle EXCEPT !.pc = "store_sids", !.op = "store",
                                   !.url = url, !.sid = sid]]
            /\ locks' = read(locks, GroupLock, t)
       ELSE /\ th' = [th EXCEPT ![t] =
                    [ThIdle EXCEPT !.pc = "create_group", !.op = "store",
                                   !.url = url, !.sid = sid]]
            /\ UNCHANGED locks
    /\ UNCHANGED <<all_instances, group_by_app>>
    /\ UNCHANGED outside_repo

\* lines 309-314, 324: the write lock of the group's set; the sid is
\* inserted; both locks are dropped
StoreSids(t) ==
    /\ th[t].pc = "store_sids"
    /\ can_write(SidsLock(th[t].url))
    /\ group_by_app' = [group_by_app EXCEPT ![th[t].url] = @ \cup {th[t].sid}]
    /\ locks' = release(locks, t)
    /\ th' = [th EXCEPT ![t].pc = "done", ![t].result = RepoOk]
    /\ UNCHANGED all_instances
    /\ UNCHANGED outside_repo

\* lines 182-192: create_group(url, sid) inserts a new set holding the sid
\* under the url, with the write lock of group_by_app
CreateGroup(t) ==
    /\ th[t].pc = "create_group"
    /\ can_write(GroupLock)
    /\ group_by_app' = insert(group_by_app, th[t].url, {th[t].sid})
    /\ th' = [th EXCEPT ![t].pc = "done", ![t].result = RepoOk]
    /\ UNCHANGED <<all_instances, locks>>
    /\ UNCHANGED outside_repo

\* lines 327-330, 335-340: remove(url, sid) takes the read lock of
\* group_by_app and looks the url up; without a group the size is 0
Remove(t, url, sid) ==
    /\ Ready(t)
    /\ can_read(GroupLock)
    /\ IF url \in DOMAIN group_by_app
       THEN /\ th' = [th EXCEPT ![t] =
                    [ThIdle EXCEPT !.pc = "remove_sids", !.op = "remove",
                                   !.url = url, !.sid = sid]]
            /\ locks' = read(locks, GroupLock, t)
       ELSE /\ th' = [th EXCEPT ![t] =
                    [ThIdle EXCEPT !.pc = "destroy_group", !.op = "remove",
                                   !.url = url, !.sid = sid]]
            /\ UNCHANGED locks
    /\ UNCHANGED <<all_instances, group_by_app>>
    /\ UNCHANGED outside_repo

\* lines 331-342: the write lock of the group's set; the sid is removed and
\* the length read; both locks are dropped; destroy_group follows when the
\* length is 0
RemoveSids(t) ==
    /\ th[t].pc = "remove_sids"
    /\ can_write(SidsLock(th[t].url))
    /\ LET sids == group_by_app[th[t].url] \ {th[t].sid}
       IN  /\ group_by_app' = [group_by_app EXCEPT ![th[t].url] = sids]
           /\ th' = IF Cardinality(sids) = 0
                    THEN [th EXCEPT ![t].pc = "destroy_group", ![t].size = 0,
                                    ![t].listed = group_by_app[th[t].url]]
                    ELSE [th EXCEPT ![t].pc = "done",
                                    ![t].size = Cardinality(sids),
                                    ![t].listed = group_by_app[th[t].url],
                                    ![t].result = RepoOk]
    /\ locks' = release(locks, t)
    /\ UNCHANGED all_instances
    /\ UNCHANGED outside_repo

----------------------------------------------------------------------------
(* destroy_group and delete_all_by_app *)

\* a group removed whatever its size
destroy_allowed_always(size) == TRUE

\* lines 205-209: the group is removed only when its size is 0
destroy_allowed(size) == ~(size > 0)

\* the guards of the block kept until the function returns
block_end_kept(L, t) == L

\* line 232: the guards taken inside the block are dropped at its end
block_end(L, t) == release(L, t)

\* lines 195-197, 200-211: destroy_group(url) takes the write lock of
\* group_by_app; without a group the size is 0 and the removal changes
\* nothing
DestroyGroup(t) ==
    /\ th[t].pc = "destroy_group"
    /\ can_write(GroupLock)
    /\ IF th[t].url \in DOMAIN group_by_app
       THEN /\ th' = [th EXCEPT ![t].pc = "destroy_size"]
            /\ locks' = write(locks, GroupLock, t)
       ELSE /\ th' = [th EXCEPT ![t].pc = "done", ![t].size = 0,
                                ![t].result = RepoOk]
            /\ UNCHANGED locks
    /\ UNCHANGED <<all_instances, group_by_app>>
    /\ UNCHANGED outside_repo

\* lines 198-199, 205-211: the read lock of the group's set; its length; the
\* group is removed when the length allows it
DestroySize(t) ==
    /\ th[t].pc = "destroy_size"
    /\ can_read(SidsLock(th[t].url))
    /\ LET size == Cardinality(group_by_app[th[t].url])
       IN  /\ group_by_app' = IF destroy_allowed(size)
                              THEN without(group_by_app, th[t].url)
                              ELSE group_by_app
           /\ th' = [th EXCEPT ![t].pc = "done", ![t].size = size,
                               ![t].result = RepoOk]
    /\ locks' = release(locks, t)
    /\ UNCHANGED all_instances
    /\ UNCHANGED outside_repo

\* lines 214-220: delete_all_by_app(url) takes the read lock of group_by_app
\* and looks the url up
DeleteAllByApp(t, url) ==
    /\ Ready(t)
    /\ can_read(GroupLock)
    /\ IF url \in DOMAIN group_by_app
       THEN /\ th' = [th EXCEPT ![t] =
                    [ThIdle EXCEPT !.pc = "all_sids", !.op = "delete_all_by_app",
                                   !.url = url]]
            /\ locks' = read(locks, GroupLock, t)
       ELSE /\ th' = [th EXCEPT ![t] =
                    [ThIdle EXCEPT !.pc = "done", !.op = "delete_all_by_app",
                                   !.url = url, !.result = NOT_FOUND]]
            /\ UNCHANGED locks
    /\ UNCHANGED <<all_instances, group_by_app>>
    /\ UNCHANGED outside_repo

\* lines 222-225: the read lock of the group's set; the iteration begins
AllSids(t) ==
    /\ th[t].pc = "all_sids"
    /\ can_read(SidsLock(th[t].url))
    /\ locks' = read(locks, SidsLock(th[t].url), t)
    /\ th' = [th EXCEPT ![t].pc = "all_loop",
                        ![t].todo = group_by_app[th[t].url],
                        ![t].listed = group_by_app[th[t].url]]
    /\ UNCHANGED <<all_instances, group_by_app>>
    /\ UNCHANGED outside_repo

\* lines 225-227: for the next sid, in the order the set yields, the write
\* lock of all_instances; a sid without a session is passed over and the
\* lock dropped at the end of the iteration
AllRepo(t, sid) ==
    /\ th[t].pc = "all_loop"
    /\ sid \in th[t].todo
    /\ can_write(RepoLock)
    /\ IF sid \in DOMAIN all_instances
       THEN /\ th' = [th EXCEPT ![t].pc = "all_session", ![t].sid = sid]
            /\ locks' = write(locks, RepoLock, t)
       ELSE /\ th' = [th EXCEPT ![t].todo = @ \ {sid}]
            /\ UNCHANGED locks
    /\ UNCHANGED <<all_instances, group_by_app>>
    /\ UNCHANGED outside_repo

\* lines 228-231: the write lock of the session; the directory of the url is
\* deleted; the locks of the session and of all_instances are dropped
AllSession(t) ==
    /\ th[t].pc = "all_session"
    /\ can_write(SessionLock(th[t].sid))
    /\ all_instances' = [all_instances EXCEPT
                            ![th[t].sid] = delete_directory(@, th[t].url)]
    /\ th' = [th EXCEPT ![t].pc = "all_loop", ![t].todo = @ \ {th[t].sid}]
    /\ locks' = drop(locks, RepoLock, t)
    /\ UNCHANGED group_by_app
    /\ UNCHANGED outside_repo

\* lines 231-235: the iteration is over; the block ends; destroy_group
\* follows
AllEnd(t) ==
    /\ th[t].pc = "all_loop"
    /\ th[t].todo = {}
    /\ locks' = block_end(locks, t)
    /\ th' = [th EXCEPT ![t].pc = "destroy_group"]
    /\ UNCHANGED <<all_instances, group_by_app>>
    /\ UNCHANGED outside_repo

----------------------------------------------------------------------------
(* Specification of the repository *)

\* InMemorySessionRepository::new (lines 100-112): both maps empty, every
\* lock free, no call in flight
InitRepo ==
    /\ now = 0
    /\ secrets \in [UserIds -> {NoSecret}]
    /\ cache = <<>>
    /\ nextJti = 1
    /\ signed = {}
    /\ call = Idle
    /\ last = NoLogout
    /\ users = {}
    /\ nextId = 1
    /\ pending = <<>>
    /\ mails = {}
    /\ events = <<>>
    /\ vc = NoString
    /\ sw = <<>>
    /\ faulted = FALSE
    /\ mf = <<>>
    /\ vault = {}
    /\ sess = <<>>
    /\ all_instances = <<>>
    /\ group_by_app = <<>>
    /\ locks = [l \in LockIds |-> Unlocked]
    /\ th = [t \in Threads |-> ThIdle]
    /\ pg = <<>>
    /\ tx = <<>>

NextRepo ==
    \/ \E t \in Threads, token \in Sids : Find(t, token)
    \/ \E t \in Threads, email \in RepoEmails : FindByEmail(t, email)
    \/ \E t \in Threads : FindByEmailScan(t)
    \/ \E t \in Threads, sid \in IncomingSids, email \in RepoEmails :
          Save(t, sid, email, Urls)
    \/ \E t \in Threads, fresh \in Sids : SaveScan(t, fresh)
    \/ \E t \in Threads, sid \in Sids : Delete(t, sid)
    \/ \E t \in Threads, url \in Urls : Get(t, url)
    \/ \E t \in Threads, url \in Urls, sid \in Sids : Store(t, url, sid)
    \/ \E t \in Threads : StoreSids(t)
    \/ \E t \in Threads : CreateGroup(t)
    \/ \E t \in Threads, url \in Urls, sid \in Sids : Remove(t, url, sid)
    \/ \E t \in Threads : RemoveSids(t)
    \/ \E t \in Threads : DestroyGroup(t)
    \/ \E t \in Threads : DestroySize(t)
    \/ \E t \in Threads, url \in Urls : DeleteAllByApp(t, url)
    \/ \E t \in Threads : AllSids(t)
    \/ \E t \in Threads, sid \in Sids : AllRepo(t, sid)
    \/ \E t \in Threads : AllSession(t)
    \/ \E t \in Threads : AllEnd(t)

SpecRepo == InitRepo /\ [][NextRepo]_vars

----------------------------------------------------------------------------
(* Properties of the repository *)

\* thread t returned from the operation op by the step taken
Returns(t, op) == th'[t] # th[t] /\ th'[t].pc = "done" /\ th'[t].op = op

\* every session is stored under its own sid and no two sessions have the
\* same email
OnePerEmail ==
    /\ \A s \in DOMAIN all_instances : all_instances[s].sid = s
    /\ \A s1 \in DOMAIN all_instances : \A s2 \in DOMAIN all_instances :
          all_instances[s1].email = all_instances[s2].email => s1 = s2

\* C34: under every interleaving of save and delete (and of the other
\* operations) no two sessions of all_instances have the same email and
\* every session is stored under its own sid; save returns ALREADY_EXISTS,
\* and leaves the map as it was, exactly when the incoming sid is a key of
\* the map or a session with the same email exists; otherwise it inserts the
\* session under a sid that was not a key and overwrites nothing
C34_OneSessionPerEmail ==
    [][/\ OnePerEmail'
       /\ \A t \in Threads : Returns(t, "save") =>
            LET refused ==
                  \/ th'[t].sid \in DOMAIN all_instances
                  \/ \E s \in DOMAIN all_instances :
                        all_instances[s].email = th'[t].email
            IN  /\ refused <=> th'[t].result = ALREADY_EXISTS
                /\ refused => all_instances' = all_instances
                /\ ~refused =>
                      /\ th'[t].result = RepoOk
                      /\ th'[t].assigned \notin DOMAIN all_instances
                      /\ all_instances' =
                            insert(all_instances, th'[t].assigned,
                                   NewSession(th'[t].assigned, th'[t].email,
                                              th'[t].dirs))]_vars

\* a save was refused for the email alone, with two sessions in the map
C34_Witness ==
    /\ Cardinality(DOMAIN all_instances) = 2
    /\ \E t \in Threads :
          /\ th[t].pc = "done" /\ th[t].op = "save"
          /\ th[t].result = ALREADY_EXISTS
          /\ th[t].sid \notin DOMAIN all_instances
          /\ has_email(all_instances, th[t].email)

\* no call is in flight
Quiet == \A t \in Threads : Ready(t)

\* C35: once the calls of store, remove and delete_all_by_app have returned,
\* every url of group_by_app maps to a non-empty set of sids, and no step
\* removes a group whose set is not empty
C35_NoEmptyGroup ==
    [][/\ Quiet' => \A u \in DOMAIN group_by_app' : group_by_app'[u] # {}
       /\ \A u \in DOMAIN group_by_app \ DOMAIN group_by_app' :
             group_by_app[u] = {}]_vars

\* a remove took the last sid out of a group, and the group is gone
C35_Witness ==
    /\ Quiet
    /\ \E t \in Threads :
          /\ th[t].op = "remove" /\ th[t].result = RepoOk
          /\ th[t].listed = {th[t].sid}
          /\ th[t].size = 0
          /\ th[t].url \notin DOMAIN group_by_app

\* C36: when a store returns Ok, the sid it registered is in the group of
\* its url, and so is the sid of the store of the other thread that returned
\* Ok for the same url and was in the group
C36_BothSidsKept ==
    [][\A t \in Threads : Returns(t, "store") =>
          /\ th'[t].url \in DOMAIN group_by_app'
          /\ th'[t].sid \in group_by_app'[th'[t].url]
          /\ \A o \in Threads \ {t} :
                (/\ th[o].pc = "done" /\ th[o].op = "store"
                 /\ th[o].result = RepoOk
                 /\ th[o].url = th'[t].url
                 /\ th[o].url \in DOMAIN group_by_app
                 /\ th[o].sid \in group_by_app[th[o].url])
                    => th[o].sid \in group_by_app'[th'[t].url]]_vars

\* C37: when delete_all_by_app(url) returns Ok for a url that had a group,
\* group_by_app has no entry for the url and no session listed in the group
\* holds a directory for the url
C37_GroupDeleted ==
    [][\A t \in Threads :
          (Returns(t, "delete_all_by_app") /\ th'[t].result = RepoOk) =>
              /\ th'[t].url \notin DOMAIN group_by_app'
              /\ \A s \in th'[t].listed \cap DOMAIN all_instances' :
                    th'[t].url \notin all_instances'[s].dirs]_vars

\* the place of a lock in the order group_by_app, set of sids,
\* all_instances, session
Level(l) ==
    IF l.kind = "group_by_app" THEN 1
    ELSE IF l.kind = "sids" THEN 2
    ELSE IF l.kind = "all_instances" THEN 3
    ELSE 4

\* the locks thread t requests next, and how
Wants(t) ==
    IF th[t].pc \in {"find_by_email", "save_scan"}
    THEN {[lock |-> SessionLock(s), mode |-> "r"] : s \in DOMAIN all_instances}
    ELSE IF th[t].pc \in {"store_sids", "remove_sids"}
    THEN {[lock |-> SidsLock(th[t].url), mode |-> "w"]}
    ELSE IF th[t].pc \in {"create_group", "destroy_group"}
    THEN {[lock |-> GroupLock, mode |-> "w"]}
    ELSE IF th[t].pc \in {"destroy_size", "all_sids"}
    THEN {[lock |-> SidsLock(th[t].url), mode |-> "r"]}
    ELSE IF th[t].pc = "all_loop" /\ th[t].todo # {}
    THEN {[lock |-> RepoLock, mode |-> "w"]}
    ELSE IF th[t].pc = "all_session"
    THEN {[lock |-> SessionLock(th[t].sid), mode |-> "w"]}
    ELSE {}

\* thread t cannot go on: a lock it requests is held by a writer, or by
\* readers when it wants to write, or a writer waits for a lock it wants to
\* read (an RwLock may give waiting writers precedence)
Blocked(t) ==
    \E w \in Wants(t) :
        IF w.mode = "w"
        THEN ~can_write(w.lock)
        ELSE \/ ~can_read(w.lock)
             \/ \E u \in Threads \ {t} :
                   [lock |-> w.lock, mode |-> "w"] \in Wants(u)

\* the threads inside a call
InFlight == {t \in Threads : ~Ready(t)}

\* C38: a thread requests a lock only while every lock it holds comes
\* earlier in the order group_by_app, set of sids, all_instances, session,
\* so never one it holds; a thread outside a call holds no lock; and
\* whenever calls are in flight, one of them can go on
C38_LockOrderNoDeadlock ==
    /\ \A t \in Threads :
          /\ \A w \in Wants(t) : \A h \in HeldBy(t) : Level(h) < Level(w.lock)
          /\ Ready(t) => HeldBy(t) = {}
    /\ InFlight # {} => \E t \in InFlight : ~Blocked(t)

\* delete_all_by_app holds the read locks of group_by_app and of the set of
\* sids and the write lock of all_instances and waits for the session, while
\* the other thread waits for the write lock of the set of sids
C38_Witness ==
    \E t \in Threads, u \in Threads :
        /\ th[t].pc = "all_session"
        /\ HeldBy(t) = {GroupLock, SidsLock(th[t].url), RepoLock}
        /\ th[u].pc \in {"store_sids", "remove_sids"}
        /\ Blocked(u)
        /\ ~Blocked(t)

----------------------------------------------------------------------------
(* PostgresUserRepository (src/src/user/framework.rs) *)

\* the last id the sequences of the tables hand out
MaxRows == 3

\* a row of the table users: id, meta_id and secret_id, 0 for no secret
PostgresUser(id, meta, secret) == [id |-> id, meta |-> meta, secret |-> secret]

NoPostgresUser == PostgresUser(0, 0, 0)

\* the rows the database can hold when the repository is first used: a user
\* with a secret and a user without
SeedRows == {PostgresUser(1, 1, 1), PostgresUser(2, 2, 0)}

\* the database with the given rows of users, their metadata and secrets
Database(rows) ==
    [users |-> rows,
     metadata |-> {r.meta : r \in rows},
     secrets |-> {r.secret : r \in {x \in rows : x.secret # 0}},
     seq |-> 3]

\* the tables of a database, without its sequences
Tables(db) == [users |-> db.users, metadata |-> db.metadata, secrets |-> db.secrets]

\* the connection: the position of the call it serves, the operation, the
\* user passed to it, the database as it was when the transaction began, the
\* statement that failed, the result
TxIdle == [pc |-> "idle", op |-> "", user |-> NoPostgresUser,
           begun |-> Database({}), failed |-> "", result |-> ""]

PgOk == "ok"
PgError == "PgError"

\* the statements of a failed call left in the database
rollback_none(db, begun) == db

\* lines 229, 254: conn.transaction rolls back when the closure returns an
\* error; the tables are as they were at the begin, the sequences keep
\* their values
rollback(db, begun) == [begun EXCEPT !.seq = db.seq]

\* the variables the repository does not touch
outside_pg ==
    <<now, secrets, cache, nextJti, signed, call, last, suvars, mfvars, sess, repovars>>

\* the call returns the error of a statement
TxFailed(stmt) ==
    /\ pg' = rollback(pg, tx.begun)
    /\ tx' = [tx EXCEPT !.pc = "done", !.failed = stmt, !.result = PgError]

\* lines 252-254: delete(user) gets the connection and begins a transaction
PgDelete(user, connOk) ==
    /\ tx.pc \in {"idle", "done"}
    /\ tx' = IF connOk
             THEN [TxIdle EXCEPT !.pc = "delete_user", !.op = "delete",
                                 !.user = user, !.begun = pg]
             ELSE [TxIdle EXCEPT !.pc = "done", !.op = "delete", !.user = user,
                                 !.begun = pg, !.failed = "connection",
                                 !.result = PgError]
    /\ UNCHANGED pg
    /\ UNCHANGED outside_pg

\* lines 165-167: the rows of users with the id are deleted
PgDeleteUser(ok) ==
    /\ tx.pc = "delete_user"
    /\ IF ok
       THEN /\ pg' = [pg EXCEPT !.users = {r \in @ : r.id # tx.user.id}]
            /\ tx' = [tx EXCEPT !.pc = "delete_meta"]
       ELSE TxFailed("user")
    /\ UNCHANGED outside_pg

\* lines 169-171: the metadata of the user is deleted; the secret follows
\* when the user has one
PgDeleteMeta(ok) ==
    /\ tx.pc = "delete_meta"
    /\ IF ok
       THEN /\ pg' = [pg EXCEPT !.metadata = @ \ {tx.user.meta}]
            /\ tx' = [tx EXCEPT !.pc = IF tx.user.secret # 0
                                       THEN "delete_secret" ELSE "commit"]
       ELSE TxFailed("metadata")
    /\ UNCHANGED outside_pg

\* lines 171-173: the secret of the user is deleted
PgDeleteSecret(ok) ==
    /\ tx.pc = "delete_secret"
    /\ IF ok
       THEN /\ pg' = [pg EXCEPT !.secrets = @ \ {tx.user.secret}]
            /\ tx' = [tx EXCEPT !.pc = "commit"]
       ELSE TxFailed("secret")
    /\ UNCHANGED outside_pg

\* lines 227-229: create(user) gets the connection and begins a transaction
PgCreate(connOk) ==
    /\ tx.pc \in {"idle", "done"}
    /\ pg.seq <= MaxRows
    /\ tx' = IF connOk
             THEN [TxIdle EXCEPT !.pc = "create_meta", !.op = "create", !.begun = pg]
             ELSE [TxIdle EXCEPT !.pc = "done", !.op = "create", !.begun = pg,
                                 !.failed = "connection", !.result = PgError]
    /\ UNCHANGED pg
    /\ UNCHANGED outside_pg

\* line 146: the metadata of the user is created and gets its id
PgCreateMeta(ok) ==
    /\ tx.pc = "create_meta"
    /\ IF ok
       THEN /\ pg' = [pg EXCEPT !.metadata = @ \cup {pg.seq}]
            /\ tx' = [tx EXCEPT !.pc = "create_user",
                                !.user = PostgresUser(0, pg.seq, 0)]
       ELSE TxFailed("metadata")
    /\ UNCHANGED outside_pg

\* lines 148-161: the row of the user is inserted and the user gets its id
PgCreateUser(ok) ==
    /\ tx.pc = "create_user"
    /\ IF ok
       THEN /\ pg' = [pg EXCEPT !.users = @ \cup {PostgresUser(pg.seq, tx.user.meta, 0)},
                                !.seq = @ + 1]
            /\ tx' = [tx EXCEPT !.pc = "commit", !.user.id = pg.seq]
       ELSE TxFailed("user")
    /\ UNCHANGED outside_pg

\* lines 229-230, 254-255: the closure returned Ok; the transaction commits
PgCommit(ok) ==
    /\ tx.pc = "commit"
    /\ IF ok
       THEN /\ tx' = [tx EXCEPT !.pc = "done", !.result = PgOk]
            /\ UNCHANGED pg
       ELSE TxFailed("commit")
    /\ UNCHANGED outside_pg

\* the users a caller can pass to delete: the ones it read or created
PgUsers == SeedRows \cup {PostgresUser(3, 3, 0)}

InitPg ==
    /\ now = 0
    /\ secrets \in [UserIds -> {NoSecret}]
    /\ cache = <<>>
    /\ nextJti = 1
    /\ signed = {}
    /\ call = Idle
    /\ last = NoLogout
    /\ users = {}
    /\ nextId = 1
    /\ pending = <<>>
    /\ mails = {}
    /\ events = <<>>
    /\ vc = NoString
    /\ sw = <<>>
    /\ faulted = FALSE
    /\ mf = <<>>
    /\ vault = {}
    /\ sess = <<>>
    /\ all_instances = <<>>
    /\ group_by_app = <<>>
    /\ locks = <<>>
    /\ th = <<>>
    /\ \E rows \in SUBSET SeedRows : pg = Database(rows)
    /\ tx = TxIdle

NextPg ==
    \/ \E user \in PgUsers, connOk \in BOOLEAN : PgDelete(user, connOk)
    \/ \E ok \in BOOLEAN : PgDeleteUser(ok)
    \/ \E ok \in BOOLEAN : PgDeleteMeta(ok)
    \/ \E ok \in BOOLEAN : PgDeleteSecret(ok)
    \/ \E connOk \in BOOLEAN : PgCreate(connOk)
    \/ \E ok \in BOOLEAN : PgCreateMeta(ok)
    \/ \E ok \in BOOLEAN : PgCreateUser(ok)
    \/ \E ok \in BOOLEAN : PgCommit(ok)

SpecPg == InitPg /\ [][NextPg]_vars

\* C39: delete removes the row of the user, its metadata and, when the user
\* has one, its secret in one transaction: after Ok none of them remains and
\* nothing else was touched; after an error of the connection, of one of the
\* deletions or of the commit, the three tables are as they were before the
\* call
C39_DeleteIsAtomic ==
    (tx.pc = "done" /\ tx.op = "delete") =>
        /\ tx.result = PgOk =>
              /\ pg.users = {r \in tx.begun.users : r.id # tx.user.id}
              /\ pg.metadata = tx.begun.metadata \ {tx.user.meta}
              /\ pg.secrets = tx.begun.secrets \ {tx.user.secret}
              /\ tx.user \notin pg.users
              /\ tx.user.meta \notin pg.metadata
              /\ tx.user.secret # 0 => tx.user.secret \notin pg.secrets
        /\ tx.result # PgOk => Tables(pg) = Tables(tx.begun)

\* the deletion of the secret failed after the row and the metadata of the
\* user had been deleted inside the transaction: the three are still there
C39_Witness ==
    /\ tx.pc = "done" /\ tx.op = "delete"
    /\ tx.failed = "secret"
    /\ tx.result = PgError
    /\ tx.user \in pg.users
    /\ tx.user.meta \in pg.metadata
    /\ tx.user.secret \in pg.secrets

====
